---- MODULE Spec2Model ----
(***************************************************************************)
(* ProfitPro servers.                                                      *)
(*                                                                         *)
(*  - server.py: the HTTP bridge holding one pending order in memory       *)
(*    (push_order / next_order / order_result).                            *)
(*  - license_server.py: the licence table and its verification routes.    *)
(*  - billing_server.py: the Stripe gateway writing the same table.        *)
(*  - Archive/strategies/harmonic.py: the confirmations of a signal.       *)
(*                                                                         *)
(* The bridge and the license servers are separate processes with          *)
(* separate state; each has its own specification over the same variable   *)
(* tuple: BridgeSpec, LicenseSpec (admin and verify routes from an empty   *)
(* table), StoreSpec (every route writing licenses.db) and BillingSpec     *)
(* (the checkout and webhook routes on a table of several customers).      *)
(* SignalSpec applies the functions of harmonic.py to the signals that     *)
(* Archive/app.py builds.                                                  *)
(*                                                                         *)
(* Representation.                                                         *)
(*  - Python None / a dict in a slot: << >> / <<record>>.                  *)
(*  - A JSON value of a request body: [t, n, s] with t the JSON type       *)
(*    ("absent" when the key is missing).                                  *)
(*  - A float is counted in tenths (0.1 is 1).                             *)
(*  - A string that the code strips is a sequence of tokens, the token     *)
(*    " " being whitespace.                                                *)
(*  - An Optional field of a signal: << >> (None) or <<value>>; rsi is     *)
(*    counted in tenths.                                                   *)
(***************************************************************************)
EXTENDS Integers, Sequences, FiniteSets, TLC

VARIABLES
    pending_order,   \* server.py:38    _pending_order: << >> or <<order>>
    clock,           \* server.py:86,92 time.time() of the bridge, in ticks
    req,             \* the bridge's latest request
    resp,            \* the bridge's answer to it
    telegram,        \* server.py:54    latest notification and its outcome
    last_queued,     \* history: the order built by the latest accepted push
                     \*          since the slot was last cleared
    overwritten,     \* history: the latest accepted push replaced an order
                     \*          that was still in the slot
    last_cleared,    \* history: the order the latest order_result removed,
                     \*          until the next accepted push
    issued_ids,      \* history: the ids queue_order has given out
    polls,           \* history: next_order calls since the latest other
                     \*          request, counted up to MaxPolls
    seen,            \* history: next_order has returned the order in the slot
    licenses,        \* license_server.py:43 rows of table licenses, by rowid
    now,             \* license_server.py:63 int(time.time()) of the license server
    lic_req,         \* the license server's latest request, as the handler reads it
    lic_resp,        \* the license server's answer to it
    lic_seq,         \* parity of the number of requests served on licenses.db
    bill_req,        \* the latest checkout or webhook request, as the handler reads it
    bill_resp,       \* the answer to it
    served,          \* requests served on licenses.db, counted up to MaxRequests
    sig,             \* Archive/app.py:58 the HarmonicSignal built from an alert
    confirmed,       \* Archive/app.py:71 << >>, or <<what basic_confirmations returned>>
    ratio,           \* harmonic.py:25    << >>, or <<what _rr_to_float returned>>
    levels,          \* Archive/app.py:85 << >>, or what compute_sl_tp returned
    hook_req,        \* Archive/app.py:40 the request to /tv-webhook
    hook_resp,       \* the answer to it
    zmq,             \* Archive/app.py:100 << >>, or <<the order pushed to the EA>>
    notified,        \* Archive/app.py:74,113 << >>, or <<the Telegram message>>
    sheet,           \* Archive/app.py:75,116 << >>, or <<the row for the sheet>>
    threads,         \* license_server.py:206 the /api/verify requests in flight
    mailbox          \* server.py:37    the objects of the bridge's process: the
                     \*                 dicts, the reference _pending_order holds
                     \*                 and those its requests in flight hold

bridge_vars  == <<pending_order, clock, req, resp, telegram, last_queued, overwritten,
                  last_cleared, issued_ids, polls, seen>>
license_vars == <<licenses, now, lic_req, lic_resp, lic_seq, bill_req, bill_resp, served,
                  threads, mailbox>>
billing_vars == <<bill_req, bill_resp>>
hook_vars    == <<hook_req, hook_resp, zmq, notified, sheet>>
signal_vars  == <<sig, confirmed, ratio, levels, hook_req, hook_resp, zmq, notified, sheet>>
vars == <<pending_order, clock, req, resp, telegram, last_queued, overwritten,
          last_cleared, issued_ids, polls, seen, licenses, now, lic_req, lic_resp, lic_seq,
          bill_req, bill_resp, served, sig, confirmed, ratio, levels,
          hook_req, hook_resp, zmq, notified, sheet, threads, mailbox>>

(***************************************************************************)
(* Bounds of the model.                                                    *)
(***************************************************************************)
\* the bridge's clock runs from 0 to MaxClock ticks
MaxClock == 4
\* clock ticks per millisecond: time.time() is finer than the id's millisecond
TicksPerMs == 2
\* consecutive polls are counted up to MaxPolls
MaxPolls == 2
\* the license server's clock runs from day 1 to day MaxDay
MaxDay == 3
\* StoreSpec and BillingSpec follow a table for MaxRequests requests
MaxRequests == 3

(***************************************************************************)
(* JSON values and Python conversions.                                     *)
(***************************************************************************)
JAbsent  == [t |-> "absent", n |-> 0, s |-> ""]
JNull    == [t |-> "null",   n |-> 0, s |-> ""]
JNum(n)  == [t |-> "num",    n |-> n, s |-> ""]
JStr(s)  == [t |-> "str",    n |-> 0, s |-> s]

\* dict.get(key, default)
Get(raw, default) == IF raw.t = "absent" THEN default ELSE raw

\* the strings of the model that float() parses, with their value in tenths
NumericStrings == {"0.5"}
FloatOfString(s) == IF s = "0.5" THEN 5 ELSE 0

\* float(x): a number converts, a numeric string parses, None and any other
\* string raise (TypeError, ValueError)
FloatOk(raw) ==
    \/ raw.t = "num"
    \/ raw.t = "str" /\ raw.s \in NumericStrings
Float(raw) == IF raw.t = "num" THEN raw.n ELSE FloatOfString(raw.s)

\* str(x) of a JSON value
PyStr(raw) ==
    CASE raw.t = "str"  -> raw.s
      [] raw.t = "num"  -> ToString(raw.n)
      [] OTHER          -> "None"


(***************************************************************************)
(* server.py: the order slot.                                              *)
(***************************************************************************)
DEFAULT_SYMBOL == "US30"
DEFAULT_LOT == 1
TELEGRAM_ENABLED == TRUE

\* dict(_pending_order) if _pending_order else None
_peek_order == IF pending_order # << >> THEN pending_order ELSE << >>

\* a slot that keeps an unconsumed order (first write wins)
_set_order_keep(order) == IF pending_order # << >> THEN pending_order ELSE order

\* the value _pending_order takes: dict(order) if order else None
_set_order(order) == IF order # << >> THEN order ELSE << >>

\* a clear that leaves the slot as it is
_clear_order_noop == pending_order

_clear_order == _set_order(<< >>)

\* requests.post to Telegram: delivered, or failing (HTTP status, exception)
TelegramOutcomes == {"sent", "failed"}

\* send_telegram_message(text): every outcome is logged and swallowed
send_telegram_message(msg, outcome) ==
    IF TELEGRAM_ENABLED
    THEN telegram' = [msg |-> msg, outcome |-> outcome]
    ELSE UNCHANGED telegram

\* a direction test that ignores case
DirectionOk_nocase(direction) ==
    direction.t = "str" /\ direction.s \in {"BUY", "SELL", "buy", "sell"}

\* direction in ("BUY", "SELL")
DirectionOk(direction) == direction.t = "str" /\ direction.s \in {"BUY", "SELL"}

\* the dict queue_order builds
NewOrder(direction, symbol, lot, sl, tp) ==
    [id        |-> clock \div TicksPerMs,
     direction |-> direction.s,
     symbol    |-> PyStr(symbol),
     lot       |-> lot,
     sl        |-> sl,
     tp        |-> tp,
     ts        |-> clock]

\* a queue_order whose rejection wipes the slot
queue_order_wipe(direction, symbol, lot, sl, tp, outcome) ==
    IF ~DirectionOk(direction)
    THEN /\ pending_order' = << >>
         /\ seen' = FALSE
         /\ UNCHANGED <<telegram, last_queued, overwritten, last_cleared, issued_ids>>
    ELSE LET order == NewOrder(direction, symbol, lot, sl, tp) IN
         /\ pending_order' = _set_order(<<order>>)
         /\ last_queued' = <<order>>
         /\ overwritten' = (pending_order # << >>)
         /\ last_cleared' = << >>
         /\ issued_ids' = issued_ids \cup {order.id}
         /\ seen' = FALSE
         /\ send_telegram_message("new_order", outcome)

\* a queue_order that notifies first and stores nothing when that fails
queue_order_unless_failed(direction, symbol, lot, sl, tp, outcome) ==
    IF ~DirectionOk(direction)
    THEN UNCHANGED <<pending_order, telegram, last_queued, overwritten, last_cleared,
                     issued_ids, seen>>
    ELSE IF outcome = "failed"
    THEN /\ send_telegram_message("new_order", outcome)
         /\ UNCHANGED <<pending_order, last_queued, overwritten, last_cleared,
                        issued_ids, seen>>
    ELSE LET order == NewOrder(direction, symbol, lot, sl, tp) IN
         /\ pending_order' = _set_order(<<order>>)
         /\ last_queued' = <<order>>
         /\ overwritten' = (pending_order # << >>)
         /\ last_cleared' = << >>
         /\ issued_ids' = issued_ids \cup {order.id}
         /\ seen' = FALSE
         /\ send_telegram_message("new_order", outcome)

\* queue_order: returns False on a bad direction, else stores the order and
\* notifies; its return value is DirectionOk(direction)
queue_order(direction, symbol, lot, sl, tp, outcome) ==
    IF ~DirectionOk(direction)
    THEN UNCHANGED <<pending_order, telegram, last_queued, overwritten, last_cleared,
                     issued_ids, seen>>
    ELSE LET order == NewOrder(direction, symbol, lot, sl, tp) IN
         /\ pending_order' = _set_order(<<order>>)
         /\ last_queued' = <<order>>
         /\ overwritten' = (pending_order # << >>)
         /\ last_cleared' = << >>
         /\ issued_ids' = issued_ids \cup {order.id}
         /\ seen' = FALSE
         /\ send_telegram_message("new_order", outcome)

\* the message handle_mt5_result sends for a payload
ResultMessage(payload) ==
    CASE payload.event = "CLOSE"  -> "close"
      [] payload.status = "OK"    -> "executed"
      [] payload.status = "ERROR" -> "error"
      [] OTHER                    -> "raw"

\* handle_mt5_result: notify; nothing it raises leaves it (SHEETS_ENABLED is
\* False, so the sheet branch never runs)
handle_mt5_result(payload, outcome) ==
    send_telegram_message(ResultMessage(payload), outcome)

Reply(op, code, text, json) == [op |-> op, code |-> code, text |-> text, json |-> json]
Request(op, body) == [op |-> op, body |-> body]

\* the JSON object next_order returns for an order
Payload(order) ==
    [id |-> order.id, direction |-> order.direction, symbol |-> order.symbol,
     lot |-> order.lot, sl |-> order.sl, tp |-> order.tp]

(***************************************************************************)
(* server.py: the routes.                                                  *)
(***************************************************************************)
\* a JSON object posted to /push_order
PushBody(direction, symbol, lot, sl, tp) ==
    [kind |-> "dict", direction |-> direction, symbol |-> symbol, lot |-> lot,
     sl |-> sl, tp |-> tp]

\* bodies of POST /push_order: unparseable, JSON that is no object, and objects
\* with a good or bad direction, with and without fields float() refuses
PushBodies ==
    {[kind |-> k, direction |-> JAbsent, symbol |-> JAbsent, lot |-> JAbsent,
      sl |-> JAbsent, tp |-> JAbsent] : k \in {"malformed", "nondict"}}
    \cup
    {PushBody(JStr("BUY"),  JAbsent,        JAbsent,     JAbsent, JAbsent),
     PushBody(JStr("SELL"), JStr("EURUSD"), JStr("0.5"), JAbsent, JNum(9)),
     PushBody(JStr("BUY"),  JAbsent,        JStr("0.5"), JAbsent, JAbsent),
     PushBody(JStr("buy"),  JAbsent,        JAbsent,     JAbsent, JAbsent),
     PushBody(JAbsent,      JStr("EURUSD"), JAbsent,     JAbsent, JAbsent),
     PushBody(JStr("BUY"),  JAbsent,        JStr("abc"), JAbsent, JAbsent),
     PushBody(JStr("buy"),  JAbsent,        JStr("abc"), JAbsent, JAbsent),
     PushBody(JStr("SELL"), JAbsent,        JAbsent,     JNull,   JAbsent)}

\* the body parses and is an object whose lot, sl and tp convert (lines 233-238)
PushParses(body) ==
    /\ body.kind = "dict"
    /\ FloatOk(Get(body.lot, JNum(DEFAULT_LOT)))
    /\ FloatOk(Get(body.sl, JNum(0)))
    /\ FloatOk(Get(body.tp, JNum(0)))

CountPoll == IF polls < MaxPolls THEN polls + 1 ELSE polls

\* a poll that consumes the order it returns
next_order_pop ==
    LET order == _peek_order IN
    /\ req' = Request("next_order", [kind |-> "none"])
    /\ resp' = IF order = << >>
               THEN Reply("next_order", 200, "EMPTY", << >>)
               ELSE Reply("next_order", 200, "", <<Payload(order[1])>>)
    /\ pending_order' = << >>
    /\ polls' = CountPoll
    /\ seen' = FALSE
    /\ UNCHANGED <<clock, telegram, last_queued, overwritten, last_cleared, issued_ids>>

\* a poll that answers an empty slot with the error object
next_order_error ==
    LET order == _peek_order IN
    /\ req' = Request("next_order", [kind |-> "none"])
    /\ resp' = IF order = << >>
               THEN Reply("next_order", 200, "server_exception", << >>)
               ELSE Reply("next_order", 200, "", <<Payload(order[1])>>)
    /\ polls' = CountPoll
    /\ seen' = (order # << >>)
    /\ UNCHANGED <<pending_order, clock, telegram, last_queued, overwritten,
                   last_cleared, issued_ids>>

\* GET /next_order
next_order ==
    LET order == _peek_order IN
    /\ req' = Request("next_order", [kind |-> "none"])
    /\ resp' = IF order = << >>
               THEN Reply("next_order", 200, "EMPTY", << >>)
               ELSE Reply("next_order", 200, "", <<Payload(order[1])>>)
    /\ polls' = CountPoll
    /\ seen' = (order # << >>)
    /\ UNCHANGED <<pending_order, clock, telegram, last_queued, overwritten,
                   last_cleared, issued_ids>>

\* bodies of POST /order_result
ResultBodies ==
    {[kind |-> k, status |-> "", event |-> ""] : k \in {"malformed", "nondict"}}
    \cup
    {[kind |-> "dict", status |-> "OK",    event |-> ""],
     [kind |-> "dict", status |-> "ERROR", event |-> ""],
     [kind |-> "dict", status |-> "",      event |-> "CLOSE"],
     [kind |-> "dict", status |-> "",      event |-> ""]}

\* an order_result that acknowledges a non-object body like any other
order_result_ack_all ==
    \E body \in ResultBodies, outcome \in TelegramOutcomes :
       /\ req' = Request("order_result", body)
       /\ polls' = 0
       /\ UNCHANGED <<clock, issued_ids, overwritten>>
       /\ IF body.kind = "dict"
          THEN /\ handle_mt5_result(body, outcome)
               /\ pending_order' = _clear_order
               /\ last_queued' = << >>
               /\ last_cleared' = pending_order
               /\ seen' = FALSE
               /\ resp' = Reply("order_result", 200, "ACK", << >>)
          ELSE /\ UNCHANGED <<pending_order, telegram, last_queued, last_cleared, seen>>
               /\ resp' = Reply("order_result", 200, "ACK", << >>)

\* POST /order_result
order_result ==
    \E body \in ResultBodies, outcome \in TelegramOutcomes :
       /\ req' = Request("order_result", body)
       /\ polls' = 0
       /\ UNCHANGED <<clock, issued_ids, overwritten>>
       /\ CASE body.kind = "malformed" ->
                 \* get_json raises; the handler answers ACK from its except
                 /\ UNCHANGED <<pending_order, telegram, last_queued, last_cleared, seen>>
                 /\ resp' = Reply("order_result", 200, "ACK", << >>)
            [] body.kind = "nondict" ->
                 /\ UNCHANGED <<pending_order, telegram, last_queued, last_cleared, seen>>
                 /\ resp' = Reply("order_result", 400, "BAD_FORMAT", << >>)
            [] OTHER ->
                 /\ handle_mt5_result(body, outcome)
                 /\ pending_order' = _clear_order
                 /\ last_queued' = pending_order'
                 /\ last_cleared' = IF pending_order' = << >> THEN pending_order
                                    ELSE << >>
                 /\ seen' = (pending_order' # << >> /\ seen)
                 /\ resp' = Reply("order_result", 200, "ACK", << >>)

\* POST /push_order
push_order ==
    \E body \in PushBodies, outcome \in TelegramOutcomes :
       /\ req' = Request("push_order", body)
       /\ polls' = 0
       /\ UNCHANGED clock
       /\ IF ~PushParses(body)
          THEN /\ UNCHANGED <<pending_order, telegram, last_queued, overwritten,
                              last_cleared, issued_ids, seen>>
               /\ resp' = Reply("push_order", 400, "BAD_JSON", << >>)
          ELSE /\ queue_order(body.direction,
                              Get(body.symbol, JStr(DEFAULT_SYMBOL)),
                              Float(Get(body.lot, JNum(DEFAULT_LOT))),
                              Float(Get(body.sl, JNum(0))),
                              Float(Get(body.tp, JNum(0))),
                              outcome)
               /\ resp' = IF DirectionOk(body.direction)
                          THEN Reply("push_order", 200, "QUEUED", << >>)
                          ELSE Reply("push_order", 400, "BAD_DIRECTION", << >>)

\* time passes on the bridge's host
BridgeTick ==
    /\ clock < MaxClock
    /\ clock' = clock + 1
    /\ UNCHANGED <<pending_order, req, resp, telegram, last_queued, overwritten,
                   last_cleared, issued_ids, polls, seen>>

\* no request has reached /tv-webhook
HookIdle ==
    /\ hook_req = [kind |-> "none"]
    /\ hook_resp = [kind |-> "none"]
    /\ zmq = << >>
    /\ notified = << >>
    /\ sheet = << >>

\* no alert has come to Archive/app.py
SignalIdle ==
    /\ sig = << >>
    /\ confirmed = << >>
    /\ ratio = << >>
    /\ levels = << >>
    /\ HookIdle

\* the threads that serve /api/verify at once
Threads == {1, 2}

\* the threads that serve the bridge's routes at once
Workers == {1, 2}

Worker(pc, op, order, reply) == [pc |-> pc, op |-> op, order |-> order, reply |-> reply]

\* no dict is allocated, _pending_order is None (reference 0), no request is
\* in flight
MailboxIdle ==
    mailbox = [heap    |-> << >>,
               slot    |-> 0,
               built   |-> {},
               workers |-> [t \in Workers |-> Worker("idle", "none", 0, << >>)]]

\* none of the threads of the license server is in a request
RaceIdle ==
    threads = [t \in Threads |->
                  [pc |-> "idle", key |-> << >>, account |-> << >>, lic |-> << >>,
                   reply |-> << >>]]

\* the license server's variables, untouched by the bridge
LicenseIdle ==
    /\ licenses = << >>
    /\ now = 0
    /\ lic_req = [op |-> "none"]
    /\ lic_resp = [op |-> "none"]
    /\ lic_seq = 0
    /\ bill_req = [op |-> "none"]
    /\ bill_resp = [op |-> "none"]
    /\ served = 0
    /\ RaceIdle
    /\ MailboxIdle

BridgeInit ==
    /\ pending_order = << >>
    /\ clock = 0
    /\ req = Request("none", [kind |-> "none"])
    /\ resp = Reply("none", 0, "", << >>)
    /\ telegram = [msg |-> "none", outcome |-> "none"]
    /\ last_queued = << >>
    /\ overwritten = FALSE
    /\ last_cleared = << >>
    /\ issued_ids = {}
    /\ polls = 0
    /\ seen = FALSE
    /\ LicenseIdle
    /\ SignalIdle

BridgeNext ==
    \/ push_order /\ UNCHANGED <<license_vars, signal_vars>>
    \/ next_order /\ UNCHANGED <<license_vars, signal_vars>>
    \/ order_result /\ UNCHANGED <<license_vars, signal_vars>>
    \/ BridgeTick /\ UNCHANGED <<license_vars, signal_vars>>

BridgeSpec == BridgeInit /\ [][BridgeNext]_vars

\* the terminal polls: a GET /next_order that is not a repetition without
\* effect
terminal_poll == next_order /\ UNCHANGED <<license_vars, signal_vars>>

\* the terminal reports on the order it was given: a POST /order_result whose
\* body is a JSON object, the order in the slot being one next_order returned
terminal_result ==
    /\ seen
    /\ order_result
    /\ req'.body.kind = "dict"
    /\ UNCHANGED <<license_vars, signal_vars>>

\* the bridge with a terminal that keeps polling and reports on every order
\* it receives
TerminalSpec ==
    /\ BridgeInit
    /\ [][BridgeNext]_vars
    /\ WF_vars(terminal_poll)
    /\ WF_vars(terminal_result)

(***************************************************************************)
(* server.py: the slot as an object.  The routes are served by threads of  *)
(* one process; a dict is an object of its heap, at the index that is its  *)
(* reference, and _pending_order holds a reference or None (0).  A step is *)
(* what one request does up to and including one statement under           *)
(* _order_lock.                                                            *)
(***************************************************************************)
\* no request starts once the heap holds MaxObjects dicts
MaxObjects == 4

\* a dict that is returned under the reference it came with
dict_same(heap, ref) == [heap |-> heap, ref |-> ref]

\* dict(d): a new dict with the items of the dict at ref; the values of an
\* order are strings and numbers, which the two dicts can share
dict_copy(heap, ref) == [heap |-> Append(heap, heap[ref]), ref |-> Len(heap) + 1]

\* the request of worker t is answered
Answer(t, reply) ==
    [mailbox.workers EXCEPT ![t].pc = "done", ![t].reply = <<reply>>]

\* push_order, lines 232-238, and queue_order up to the dict it builds
mailbox_push_order(t) ==
    /\ mailbox.workers[t].pc = "idle"
    /\ Len(mailbox.heap) < MaxObjects
    /\ \E body \in PushBodies :
          IF ~PushParses(body)
          THEN mailbox' = [mailbox EXCEPT
                  !.workers = [Answer(t, Reply("push_order", 400, "BAD_JSON", << >>))
                                  EXCEPT ![t].op = "push_order"]]
          ELSE IF ~DirectionOk(body.direction)
          THEN mailbox' = [mailbox EXCEPT
                  !.workers = [Answer(t, Reply("push_order", 400, "BAD_DIRECTION", << >>))
                                  EXCEPT ![t].op = "push_order"]]
          ELSE LET order == NewOrder(body.direction,
                                     Get(body.symbol, JStr(DEFAULT_SYMBOL)),
                                     Float(Get(body.lot, JNum(DEFAULT_LOT))),
                                     Float(Get(body.sl, JNum(0))),
                                     Float(Get(body.tp, JNum(0))))
               IN  mailbox' = [mailbox EXCEPT
                      !.heap = Append(mailbox.heap, order),
                      !.built = mailbox.built \cup {order},
                      !.workers[t] = Worker("set", "push_order",
                                            Len(mailbox.heap) + 1, << >>)]
    /\ UNCHANGED telegram

\* queue_order, line 93: _set_order(order), _pending_order = dict(order)
mailbox_set_order(t) ==
    LET copy == dict_copy(mailbox.heap, mailbox.workers[t].order) IN
    /\ mailbox.workers[t].pc = "set"
    /\ mailbox' = [mailbox EXCEPT !.heap = copy.heap,
                                  !.slot = copy.ref,
                                  !.workers[t].pc = "notify"]
    /\ UNCHANGED telegram

\* queue_order, lines 96-111: the message is built from the items of order;
\* push_order answers QUEUED
mailbox_notify(t) ==
    /\ mailbox.workers[t].pc = "notify"
    /\ \E outcome \in TelegramOutcomes : send_telegram_message("new_order", outcome)
    /\ mailbox' = [mailbox EXCEPT
          !.workers = Answer(t, Reply("push_order", 200, "QUEUED", << >>))]

\* next_order, lines 193-196: _peek_order(), dict(_pending_order) or None
mailbox_peek_order(t) ==
    /\ mailbox.workers[t].pc = "idle"
    /\ Len(mailbox.heap) < MaxObjects
    /\ IF mailbox.slot = 0
       THEN mailbox' = [mailbox EXCEPT
               !.workers = [Answer(t, Reply("next_order", 200, "EMPTY", << >>))
                               EXCEPT ![t].op = "next_order"]]
       ELSE LET copy == dict_copy(mailbox.heap, mailbox.slot) IN
            mailbox' = [mailbox EXCEPT
               !.heap = copy.heap,
               !.workers[t] = Worker("reply", "next_order", copy.ref, << >>)]
    /\ UNCHANGED telegram

\* next_order, lines 197-206: the payload is read from the dict peek returned
mailbox_next_order(t) ==
    /\ mailbox.workers[t].pc = "reply"
    /\ mailbox' = [mailbox EXCEPT
          !.workers = Answer(t, Reply("next_order", 200, "",
                                      <<Payload(mailbox.heap[mailbox.workers[t].order])>>))]
    /\ UNCHANGED telegram

\* order_result, lines 216-221: the body is parsed and handle_mt5_result runs
mailbox_order_result(t) ==
    /\ mailbox.workers[t].pc = "idle"
    /\ Len(mailbox.heap) < MaxObjects
    /\ \E body \in ResultBodies, outcome \in TelegramOutcomes :
          CASE body.kind = "malformed" ->
                 /\ mailbox' = [mailbox EXCEPT
                       !.workers = [Answer(t, Reply("order_result", 200, "ACK", << >>))
                                       EXCEPT ![t].op = "order_result"]]
                 /\ UNCHANGED telegram
            [] body.kind = "nondict" ->
                 /\ mailbox' = [mailbox EXCEPT
                       !.workers = [Answer(t, Reply("order_result", 400, "BAD_FORMAT", << >>))
                                       EXCEPT ![t].op = "order_result"]]
                 /\ UNCHANGED telegram
            [] OTHER ->
                 /\ handle_mt5_result(body, outcome)
                 /\ mailbox' = [mailbox EXCEPT
                       !.workers[t] = Worker("clear", "order_result", 0, << >>)]

\* order_result, lines 222-223: _clear_order(), _pending_order = None
mailbox_clear_order(t) ==
    /\ mailbox.workers[t].pc = "clear"
    /\ mailbox' = [mailbox EXCEPT
          !.slot = 0,
          !.workers = Answer(t, Reply("order_result", 200, "ACK", << >>))]
    /\ UNCHANGED telegram

\* the thread that answered takes the next request; the dict it held is
\* out of its reach
mailbox_return(t) ==
    /\ mailbox.workers[t].pc = "done"
    /\ Len(mailbox.heap) < MaxObjects
    /\ mailbox' = [mailbox EXCEPT !.workers[t] = Worker("idle", "none", 0, << >>)]
    /\ UNCHANGED telegram

MailboxFrame ==
    UNCHANGED <<pending_order, clock, req, resp, last_queued, overwritten, last_cleared,
                issued_ids, polls, seen, licenses, now, lic_req, lic_resp, lic_seq,
                bill_req, bill_resp, served, threads, signal_vars>>

MailboxNext ==
    \/ \E t \in Workers : mailbox_push_order(t) /\ MailboxFrame
    \/ \E t \in Workers : mailbox_set_order(t) /\ MailboxFrame
    \/ \E t \in Workers : mailbox_notify(t) /\ MailboxFrame
    \/ \E t \in Workers : mailbox_peek_order(t) /\ MailboxFrame
    \/ \E t \in Workers : mailbox_next_order(t) /\ MailboxFrame
    \/ \E t \in Workers : mailbox_order_result(t) /\ MailboxFrame
    \/ \E t \in Workers : mailbox_clear_order(t) /\ MailboxFrame
    \/ \E t \in Workers : mailbox_return(t) /\ MailboxFrame

MailboxSpec == BridgeInit /\ [][MailboxNext]_vars

(***************************************************************************)
(* license_server.py: the table and its helpers.                           *)
(*                                                                         *)
(* A row holds license_key, email, mt5_account, status and expires_at.     *)
(* The columns id, created_at and updated_at are written and never read by *)
(* the routes below; the rows of the model leave them out.                 *)
(***************************************************************************)
DaySeconds == 86400

\* str.strip() on a sequence of tokens
RECURSIVE LStrip(_)
LStrip(s) == IF s # << >> /\ Head(s) = " " THEN LStrip(Tail(s)) ELSE s
RECURSIVE RStrip(_)
RStrip(s) == IF s # << >> /\ s[Len(s)] = " " THEN RStrip(SubSeq(s, 1, Len(s) - 1)) ELSE s
Strip(s) == RStrip(LStrip(s))

\* the values secrets.token_urlsafe(16) draws, named in the order in which
\* they first come out
KeySeq == << <<"K1">>, <<"K2">> >>

\* what one draw can give: a key already in the table, or the next new one
DrawnKeys ==
    {licenses[i].license_key : i \in 1..Len(licenses)}
    \cup (IF Len(licenses) < Len(KeySeq) THEN {KeySeq[Len(licenses) + 1]} ELSE {})

\* the rows WHERE license_key = ?
RowsOf(license_key) == {i \in 1..Len(licenses) : licenses[i].license_key = license_key}

\* create_license: the row it inserts (sqlite refuses a key already in the table)
NewLicense(key, email, days_valid) ==
    [license_key |-> key,
     email       |-> email,
     mt5_account |-> << >>,
     status      |-> "active",
     expires_at  |-> now + days_valid * DaySeconds]
create_license(key, email, days_valid) == Append(licenses, NewLicense(key, email, days_valid))

\* find_license: << >> (None) or <<row>>
find_license(license_key) ==
    IF RowsOf(license_key) = {} THEN << >>
    ELSE <<licenses[CHOOSE i \in RowsOf(license_key) : TRUE]>>

\* a status update that writes nothing
set_license_status_noop(license_key, status) == licenses

\* set_license_status: the table after the UPDATE
set_license_status(license_key, status) ==
    [i \in 1..Len(licenses) |->
        IF licenses[i].license_key = license_key
        THEN [licenses[i] EXCEPT !.status = status]
        ELSE licenses[i]]

\* set_license_expiry: the table after the UPDATE
set_license_expiry(license_key, expires_at) ==
    [i \in 1..Len(licenses) |->
        IF licenses[i].license_key = license_key
        THEN [licenses[i] EXCEPT !.expires_at = expires_at]
        ELSE licenses[i]]

\* a binding that replaces the account already stored
bind_account_overwrite(license_key, account) ==
    [i \in 1..Len(licenses) |->
        IF licenses[i].license_key = license_key
        THEN [licenses[i] EXCEPT !.mt5_account = account]
        ELSE licenses[i]]

\* bind_account_if_needed: the table after it (the UPDATE runs when the row's
\* mt5_account is empty)
bind_account_if_needed(license_key, account) ==
    [i \in 1..Len(licenses) |->
        IF licenses[i].license_key = license_key /\ licenses[i].mt5_account = << >>
        THEN [licenses[i] EXCEPT !.mt5_account = account]
        ELSE licenses[i]]

\* an expiry test that already refuses at now = expires_at
Expired_ge(lic) == lic.expires_at > 0 /\ now >= lic.expires_at

\* exp is not None and int(exp) > 0 and now > int(exp)
Expired(lic) == lic.expires_at > 0 /\ now > lic.expires_at

(***************************************************************************)
(* license_server.py: the routes.                                          *)
(***************************************************************************)
\* a request as the handler reads it; key and account are kept for /api/verify
LicRequest(op, kind, key, account) == [op |-> op, kind |-> kind, key |-> key, account |-> account]
LicReply(op, code, status, reason) == [op |-> op, code |-> code, status |-> status, reason |-> reason]
Denied(reason) == LicReply("verify", 200, "DENIED", reason)

\* the strings requests carry: empty, padded, plain
RawKeys     == {<< >>, <<"K1">>, <<"K2">>, <<" ", "K1">>}
RawAccounts == {<< >>, <<"D1">>, <<"D2">>, <<"D1", " ">>}
RawEmails   == {<<" ">>, <<"a">>}
Days        == {-2, 1}

\* POST /api/admin/create_license
api_admin_create_license ==
    \E raw \in RawEmails, days \in Days, key \in DrawnKeys :
       LET email == Strip(raw) IN
       /\ lic_seq' = 1 - lic_seq
       /\ lic_req' = LicRequest("create_license", "dict", << >>, << >>)
       /\ UNCHANGED now
       /\ IF email = << >>
          THEN /\ lic_resp' = LicReply("create_license", 400, "", "missing_email")
               /\ UNCHANGED licenses
          ELSE IF RowsOf(key) # {}
          THEN \* UNIQUE constraint: sqlite3.IntegrityError leaves the handler
               /\ lic_resp' = LicReply("create_license", 500, "", "")
               /\ UNCHANGED licenses
          ELSE /\ licenses' = create_license(key, email, days)
               /\ lic_resp' = LicReply("create_license", 200, "", "")

\* POST /api/admin/deactivate
api_admin_deactivate ==
    \E raw \in RawKeys :
       LET license_key == Strip(raw) IN
       /\ lic_seq' = 1 - lic_seq
       /\ lic_req' = LicRequest("deactivate", "dict", << >>, << >>)
       /\ UNCHANGED now
       /\ IF license_key = << >>
          THEN /\ lic_resp' = LicReply("deactivate", 400, "", "missing_license_key")
               /\ UNCHANGED licenses
          ELSE IF find_license(license_key) = << >>
          THEN /\ lic_resp' = LicReply("deactivate", 200, "", "unknown_license")
               /\ UNCHANGED licenses
          ELSE /\ licenses' = set_license_status(license_key, "inactive")
               /\ lic_resp' = LicReply("deactivate", 200, "OK", "")

\* POST /api/admin/set_expiry; days is << >> (None) when the body has no "days"
api_admin_set_expiry ==
    \E raw \in RawKeys, days \in {<< >>} \cup {<<d>> : d \in Days} :
       LET license_key == Strip(raw) IN
       /\ lic_seq' = 1 - lic_seq
       /\ lic_req' = LicRequest("set_expiry", "dict", << >>, << >>)
       /\ UNCHANGED now
       /\ IF license_key = << >>
          THEN /\ lic_resp' = LicReply("set_expiry", 400, "", "missing_license_key")
               /\ UNCHANGED licenses
          ELSE IF days = << >>
          THEN /\ lic_resp' = LicReply("set_expiry", 400, "", "missing_days")
               /\ UNCHANGED licenses
          ELSE /\ licenses' = set_license_expiry(license_key, now + days[1] * DaySeconds)
               /\ lic_resp' = LicReply("set_expiry", 200, "OK", "")

\* bodies of POST /api/verify: unparseable, JSON that is no object, an object
VerifyBodies ==
    {[kind |-> k, license_key |-> << >>, account |-> << >>] : k \in {"malformed", "nondict"}}
    \cup [kind : {"dict"}, license_key : RawKeys, account : RawAccounts]

\* POST /api/verify
api_verify ==
    \E body \in VerifyBodies :
       LET license_key == Strip(body.license_key)
           account     == Strip(body.account)
           lic         == find_license(license_key)
           bound       == bind_account_if_needed(license_key, account)
       IN
       /\ lic_seq' = 1 - lic_seq
       /\ lic_req' = LicRequest("verify", body.kind, license_key, account)
       /\ UNCHANGED now
       /\ IF body.kind = "malformed"
          THEN /\ lic_resp' = Denied("bad_json")
               /\ UNCHANGED licenses
          ELSE IF body.kind = "nondict"
          THEN \* data.get raises AttributeError outside any try
               /\ lic_resp' = LicReply("verify", 500, "", "")
               /\ UNCHANGED licenses
          ELSE IF license_key = << >>
          THEN /\ lic_resp' = Denied("missing_license_key")
               /\ UNCHANGED licenses
          ELSE IF lic = << >>
          THEN /\ lic_resp' = Denied("unknown_license")
               /\ UNCHANGED licenses
          ELSE IF lic[1].status # "active"
          THEN /\ lic_resp' = Denied("inactive")
               /\ UNCHANGED licenses
          ELSE IF Expired(lic[1])
          THEN /\ licenses' = set_license_status(license_key, "expired")
               /\ lic_resp' = Denied("expired")
          ELSE /\ licenses' = bound
               /\ LET row == bound[CHOOSE i \in RowsOf(license_key) : TRUE] IN
                  lic_resp' = IF row.mt5_account # << >> /\ row.mt5_account # account
                              THEN Denied("wrong_account")
                              ELSE LicReply("verify", 200, "OK", "")

\* a check_license that reports an expired license and leaves its status
api_check_license_readonly ==
    \E raw \in RawKeys :
       LET license_key == Strip(raw)
           lic         == find_license(license_key)
       IN
       /\ lic_seq' = 1 - lic_seq
       /\ lic_req' = LicRequest("check_license", "args", license_key, << >>)
       /\ UNCHANGED <<now, licenses>>
       /\ lic_resp' =
             IF license_key = << >>
             THEN LicReply("check_license", 400, "INVALID", "missing_license_key")
             ELSE IF lic = << >>
             THEN LicReply("check_license", 200, "INVALID", "not_found")
             ELSE IF lic[1].status # "active"
             THEN LicReply("check_license", 200, "INVALID", "inactive")
             ELSE IF lic[1].expires_at > 0 /\ now > lic[1].expires_at
             THEN LicReply("check_license", 200, "INVALID", "expired")
             ELSE LicReply("check_license", 200, "VALID", "ok")

\* GET /api/check_license
api_check_license ==
    \E raw \in RawKeys :
       LET license_key == Strip(raw)
           lic         == find_license(license_key)
       IN
       /\ lic_seq' = 1 - lic_seq
       /\ lic_req' = LicRequest("check_license", "args", license_key, << >>)
       /\ UNCHANGED now
       /\ IF license_key = << >>
          THEN /\ lic_resp' = LicReply("check_license", 400, "INVALID", "missing_license_key")
               /\ UNCHANGED licenses
          ELSE IF lic = << >>
          THEN /\ lic_resp' = LicReply("check_license", 200, "INVALID", "not_found")
               /\ UNCHANGED licenses
          ELSE IF lic[1].status # "active"
          THEN /\ lic_resp' = LicReply("check_license", 200, "INVALID", "inactive")
               /\ UNCHANGED licenses
          ELSE IF lic[1].expires_at > 0 /\ now > lic[1].expires_at
          THEN /\ licenses' = set_license_status(license_key, "expired")
               /\ lic_resp' = LicReply("check_license", 200, "INVALID", "expired")
          ELSE /\ lic_resp' = LicReply("check_license", 200, "VALID", "ok")
               /\ UNCHANGED licenses

\* time passes on the license server's host
LicenseTick ==
    /\ now < MaxDay * DaySeconds
    /\ now' = now + DaySeconds
    /\ UNCHANGED <<licenses, lic_req, lic_resp, lic_seq, bill_req, bill_resp, served>>

\* the bridge's variables, untouched by the license server
BridgeIdle ==
    /\ pending_order = << >>
    /\ clock = 0
    /\ req = Request("none", [kind |-> "none"])
    /\ resp = Reply("none", 0, "", << >>)
    /\ telegram = [msg |-> "none", outcome |-> "none"]
    /\ last_queued = << >>
    /\ overwritten = FALSE
    /\ last_cleared = << >>
    /\ issued_ids = {}
    /\ polls = 0
    /\ seen = FALSE

\* no checkout or webhook request is the latest request
NoBillRequest == [op |-> "none", kind |-> "none", type |-> "", email |-> << >>, days |-> << >>]
NoBillReply   == [op |-> "none", code |-> 0, error |-> "", license_key |-> << >>]
NoLicRequest  == LicRequest("none", "none", << >>, << >>)
NoLicReply    == LicReply("none", 0, "", "")

\* init_db on a new database, the first request arriving on day 1
LicenseInit ==
    /\ licenses = << >>
    /\ now = DaySeconds
    /\ lic_req = NoLicRequest
    /\ lic_resp = NoLicReply
    /\ lic_seq = 0
    /\ bill_req = NoBillRequest
    /\ bill_resp = NoBillReply
    /\ served = 0
    /\ RaceIdle
    /\ MailboxIdle
    /\ BridgeIdle
    /\ SignalIdle

LicenseNext ==
    \/ api_admin_create_license /\ UNCHANGED <<bridge_vars, billing_vars, served, signal_vars, threads, mailbox>>
    \/ api_admin_deactivate /\ UNCHANGED <<bridge_vars, billing_vars, served, signal_vars, threads, mailbox>>
    \/ api_admin_set_expiry /\ UNCHANGED <<bridge_vars, billing_vars, served, signal_vars, threads, mailbox>>
    \/ api_verify /\ UNCHANGED <<bridge_vars, billing_vars, served, signal_vars, threads, mailbox>>
    \/ LicenseTick /\ UNCHANGED <<bridge_vars, signal_vars, threads, mailbox>>

LicenseSpec == LicenseInit /\ [][LicenseNext]_vars

(***************************************************************************)
(* billing_server.py: its helpers on the table of license_server.py.       *)
(***************************************************************************)
Max(a, b) == IF a >= b THEN a ELSE b

\* the rows WHERE email = ? AND status = 'active'
ActiveRowsOf(email) ==
    {i \in 1..Len(licenses) : licenses[i].email = email /\ licenses[i].status = "active"}

\* find_active_license_by_email: << >> (None) or <<row>>, the row fetchone()
\* gives being the first of the table scan
find_active_license_by_email(email) ==
    IF ActiveRowsOf(email) = {} THEN << >>
    ELSE <<licenses[CHOOSE i \in ActiveRowsOf(email) : \A j \in ActiveRowsOf(email) : i <= j]>>

\* a bulk deactivation that stops at the first active row
deactivate_licenses_by_email_first(email) ==
    IF find_active_license_by_email(email) = << >> THEN licenses
    ELSE set_license_status(find_active_license_by_email(email)[1].license_key, "inactive")

\* a bulk update that marks the active rows expired
expire_licenses_by_email(email) ==
    [i \in 1..Len(licenses) |->
        IF licenses[i].email = email /\ licenses[i].status = "active"
        THEN [licenses[i] EXCEPT !.status = "expired"]
        ELSE licenses[i]]

\* deactivate_licenses_by_email: the table after the UPDATE
deactivate_licenses_by_email(email) ==
    [i \in 1..Len(licenses) |->
        IF licenses[i].email = email /\ licenses[i].status = "active"
        THEN [licenses[i] EXCEPT !.status = "inactive"]
        ELSE licenses[i]]

\* a grant that inserts a license whether or not one is active
create_always(key, email, days_valid) == create_license(key, email, days_valid)

\* a grant that brings the first license of the email back to active when none
\* is active
create_or_reactivate_license_for_email(key, email, days_valid) ==
    IF find_active_license_by_email(email) # << >>
    THEN LET lic == find_active_license_by_email(email)
             old_exp == IF lic[1].expires_at # 0 THEN lic[1].expires_at ELSE now
         IN  set_license_expiry(lic[1].license_key,
                                Max(old_exp, now) + days_valid * DaySeconds)
    ELSE IF \E i \in 1..Len(licenses) : licenses[i].email = email
    THEN LET first == CHOOSE i \in 1..Len(licenses) :
                          /\ licenses[i].email = email
                          /\ \A j \in 1..Len(licenses) :
                                licenses[j].email = email => i <= j
         IN  [licenses EXCEPT ![first].status = "active",
                              ![first].expires_at = now + days_valid * DaySeconds]
    ELSE create_license(key, email, days_valid)

\* create_or_extend_license_for_email: the table after it, key being the draw
\* of create_license when there is no active license
create_or_extend_license_for_email(key, email, days_valid) ==
    LET lic == find_active_license_by_email(email) IN
    IF lic = << >>
    THEN create_license(key, email, days_valid)
    ELSE LET old_key == lic[1].license_key
             old_exp == IF lic[1].expires_at # 0 THEN lic[1].expires_at ELSE now
             new_exp == Max(old_exp, now) + days_valid * DaySeconds
         IN  set_license_expiry(old_key, new_exp)

\* the license_key create_or_extend_license_for_email returns
GrantedKey(key, email) ==
    IF find_active_license_by_email(email) = << >>
    THEN key
    ELSE find_active_license_by_email(email)[1].license_key

\* an INSERT that no constraint refuses
Collides_never(key, email) == FALSE

\* create_license raises sqlite3.IntegrityError: the drawn key is in the table
Collides(key, email) ==
    find_active_license_by_email(email) = << >> /\ RowsOf(key) # {}

(***************************************************************************)
(* billing_server.py and license_server.py: checkout and webhook routes.   *)
(***************************************************************************)
BillRequest(op, kind, type, email, days) ==
    [op |-> op, kind |-> kind, type |-> type, email |-> email, days |-> days]
BillReply(op, code, error, license_key) ==
    [op |-> op, code |-> code, error |-> error, license_key |-> license_key]

\* days of a webhook grant: days_valid=30
GrantDays == 30
\* the emails checkout bodies and Stripe events carry: none, plain, padded
BillingEmails == {<< >>, <<"a">>, <<" ", "a">>}
\* "days" of a checkout body: absent (30), or an integer
CheckoutDays == {<< >>, <<-2>>, <<1>>}
\* stripe.checkout.Session.create returns or raises
StripeOutcomes == {"ok", "error"}

\* a billing request counts as the latest request on licenses.db
Served == /\ lic_seq' = 1 - lic_seq
          /\ lic_req' = NoLicRequest
          /\ lic_resp' = NoLicReply
          /\ UNCHANGED now

\* bodies of the checkout routes: unparseable, or an object
CheckoutBodies ==
    {[kind |-> "malformed", email |-> << >>, days |-> << >>]}
    \cup [kind : {"dict"}, email : BillingEmails, days : CheckoutDays]

\* what create_license can draw inside create_or_extend_license_for_email:
\* it is called when the email has no active license
Draws(email) ==
    IF find_active_license_by_email(email) = << >> THEN DrawnKeys ELSE {<< >>}

\* POST /api/billing/create_checkout (billing_server.py)
create_checkout ==
    \E body \in CheckoutBodies :
       LET email == Strip(body.email)
           days  == IF body.days = << >> THEN GrantDays ELSE body.days[1]
       IN
       /\ Served
       /\ bill_req' = BillRequest("billing_checkout", body.kind, "", email, body.days)
       /\ IF body.kind = "malformed"
          THEN /\ bill_resp' = BillReply("billing_checkout", 400, "bad_json", << >>)
               /\ UNCHANGED licenses
          ELSE IF email = << >>
          THEN /\ bill_resp' = BillReply("billing_checkout", 400, "missing_email", << >>)
               /\ UNCHANGED licenses
          ELSE \E key \in Draws(email) :
                  IF Collides(key, email)
                  THEN \* sqlite3.IntegrityError leaves the handler
                       /\ bill_resp' = BillReply("billing_checkout", 500, "", << >>)
                       /\ UNCHANGED licenses
                  ELSE /\ licenses' = create_or_extend_license_for_email(key, email, days)
                       /\ \E stripe \in StripeOutcomes :
                             bill_resp' =
                               IF stripe = "error"
                               THEN BillReply("billing_checkout", 500, "stripe_error", << >>)
                               ELSE BillReply("billing_checkout", 200, "",
                                              GrantedKey(key, email))

\* bodies of POST /api/create_checkout: unparseable, or an object with "email"
ApiCheckoutBodies ==
    {[kind |-> "malformed", email |-> << >>]} \cup [kind : {"dict"}, email : BillingEmails]

\* POST /api/create_checkout (license_server.py); configured says whether
\* STRIPE_SECRET_KEY and STRIPE_PRICE_ID are set
api_create_checkout ==
    \E body \in ApiCheckoutBodies :
       LET email == Strip(body.email) IN
       /\ Served
       /\ bill_req' = BillRequest("checkout", body.kind, "", email, << >>)
       /\ UNCHANGED licenses
       /\ IF body.kind = "malformed"
          THEN bill_resp' = BillReply("checkout", 400, "bad_json", << >>)
          ELSE IF email = << >>
          THEN bill_resp' = BillReply("checkout", 400, "missing_email", << >>)
          ELSE \E configured \in BOOLEAN :
                  IF ~configured
                  THEN bill_resp' = BillReply("checkout", 500, "stripe_not_configured", << >>)
                  ELSE \E stripe \in StripeOutcomes :
                          bill_resp' = IF stripe = "error"
                                       THEN BillReply("checkout", 500, "stripe_error", << >>)
                                       ELSE BillReply("checkout", 200, "", << >>)

\* the event types the webhooks tell apart, and one they do not know
EventTypes ==
    {"checkout.session.completed", "invoice.payment_succeeded",
     "invoice.payment_failed", "customer.subscription.deleted", "charge.refunded"}

\* what reaches a webhook route: kind says how far the request gets
\* (no signing secret configured, construct_event refusing the signature,
\* an event), and each event is one Stripe event, which Stripe may deliver
\* more than once; email is the customer's email the event leads to
WebhookDeliveries ==
    {[kind |-> k, type |-> "", email |-> << >>] : k \in {"no_secret", "bad_signature"}}
    \cup [kind : {"event"}, type : EventTypes, email : BillingEmails]

\* a webhook that also grants on an event type it does not know
GrantTypes_more ==
    {"checkout.session.completed", "invoice.payment_succeeded", "charge.refunded"}

\* the event types on which billing_server.py grants a period, and those on
\* which it deactivates
GrantTypes  == {"checkout.session.completed", "invoice.payment_succeeded"}
RevokeTypes == {"invoice.payment_failed", "customer.subscription.deleted"}

\* POST /api/stripe/webhook (billing_server.py)
billing_stripe_webhook ==
    \E delivery \in WebhookDeliveries :
       LET email == Strip(delivery.email) IN
       /\ Served
       /\ bill_req' = BillRequest("billing_webhook", delivery.kind, delivery.type,
                                  email, << >>)
       /\ IF delivery.kind = "no_secret"
          THEN /\ bill_resp' = BillReply("billing_webhook", 500,
                                         "webhook_secret_not_configured", << >>)
               /\ UNCHANGED licenses
          ELSE IF delivery.kind = "bad_signature"
          THEN /\ bill_resp' = BillReply("billing_webhook", 400, "invalid_signature", << >>)
               /\ UNCHANGED licenses
          ELSE IF delivery.type \in GrantTypes /\ email # << >>
          THEN \E key \in Draws(email) :
                  IF Collides(key, email)
                  THEN \* sqlite3.IntegrityError leaves the handler
                       /\ bill_resp' = BillReply("billing_webhook", 500, "", << >>)
                       /\ UNCHANGED licenses
                  ELSE /\ licenses' = create_or_extend_license_for_email(key, email, GrantDays)
                       /\ bill_resp' = BillReply("billing_webhook", 200, "", << >>)
          ELSE IF delivery.type \in RevokeTypes /\ email # << >>
          THEN /\ licenses' = deactivate_licenses_by_email(email)
               /\ bill_resp' = BillReply("billing_webhook", 200, "", << >>)
          ELSE /\ bill_resp' = BillReply("billing_webhook", 200, "", << >>)
               /\ UNCHANGED licenses

\* POST /stripe/webhook (license_server.py); the email is used as it comes
stripe_webhook ==
    \E delivery \in WebhookDeliveries :
       /\ Served
       /\ bill_req' = BillRequest("webhook", delivery.kind, delivery.type,
                                  delivery.email, << >>)
       /\ IF delivery.kind = "no_secret"
          THEN /\ bill_resp' = BillReply("webhook", 500, "missing_webhook_secret", << >>)
               /\ UNCHANGED licenses
          ELSE IF delivery.kind = "bad_signature"
          THEN /\ bill_resp' = BillReply("webhook", 400, "bad_signature", << >>)
               /\ UNCHANGED licenses
          ELSE /\ bill_resp' = BillReply("webhook", 200, "", << >>)
               /\ IF delivery.type = "checkout.session.completed" /\ delivery.email # << >>
                  THEN \E key \in DrawnKeys :
                          IF RowsOf(key) = {}
                          THEN licenses' = create_license(key, delivery.email, GrantDays)
                          ELSE \* the exception of create_license is logged
                               UNCHANGED licenses
                  ELSE UNCHANGED licenses

(***************************************************************************)
(* StoreSpec: every route that writes licenses.db, from an empty table.    *)
(***************************************************************************)
\* a license request is the latest request on licenses.db
NoBilling == bill_req' = NoBillRequest /\ bill_resp' = NoBillReply

\* one more request served
Counted == served < MaxRequests /\ served' = served + 1

StoreNext ==
    \/ Counted /\ api_admin_create_license /\ NoBilling /\ UNCHANGED <<bridge_vars, signal_vars, threads, mailbox>>
    \/ Counted /\ api_admin_deactivate /\ NoBilling /\ UNCHANGED <<bridge_vars, signal_vars, threads, mailbox>>
    \/ Counted /\ api_admin_set_expiry /\ NoBilling /\ UNCHANGED <<bridge_vars, signal_vars, threads, mailbox>>
    \/ Counted /\ api_verify /\ NoBilling /\ UNCHANGED <<bridge_vars, signal_vars, threads, mailbox>>
    \/ Counted /\ api_check_license /\ NoBilling /\ UNCHANGED <<bridge_vars, signal_vars, threads, mailbox>>
    \/ Counted /\ create_checkout /\ UNCHANGED <<bridge_vars, signal_vars, threads, mailbox>>
    \/ Counted /\ api_create_checkout /\ UNCHANGED <<bridge_vars, signal_vars, threads, mailbox>>
    \/ Counted /\ billing_stripe_webhook /\ UNCHANGED <<bridge_vars, signal_vars, threads, mailbox>>
    \/ Counted /\ stripe_webhook /\ UNCHANGED <<bridge_vars, signal_vars, threads, mailbox>>
    \/ LicenseTick /\ UNCHANGED <<bridge_vars, signal_vars, threads, mailbox>>

StoreSpec == LicenseInit /\ [][StoreNext]_vars

(***************************************************************************)
(* BillingSpec: the checkout and webhook routes of both servers, on a      *)
(* table the admin and verify routes have left behind.                     *)
(***************************************************************************)
\* rows the table can hold when the first billing request arrives: of two
\* customers, active or deactivated, either never bound and without expiry
\* (expires_at 0) or bound and expiring on day 2
StoredRows(key) ==
    {[license_key |-> key, email |-> e, mt5_account |-> b.account, status |-> st,
      expires_at |-> b.expires_at] :
        e \in {<<"a">>, <<"b">>},
        st \in {"active", "inactive"},
        b \in {[account |-> << >>, expires_at |-> 0],
               [account |-> <<"D1">>, expires_at |-> 2 * DaySeconds]}}

\* the tables of at most Len(KeySeq) such rows, keys in the order of KeySeq
StoredTables ==
    {<< >>}
    \cup {<<r>> : r \in StoredRows(KeySeq[1])}
    \cup {<<r1, r2>> : r1 \in StoredRows(KeySeq[1]), r2 \in StoredRows(KeySeq[2])}

BillingInit ==
    /\ licenses \in StoredTables
    /\ now = DaySeconds
    /\ lic_req = NoLicRequest
    /\ lic_resp = NoLicReply
    /\ lic_seq = 0
    /\ bill_req = NoBillRequest
    /\ bill_resp = NoBillReply
    /\ served = 0
    /\ RaceIdle
    /\ MailboxIdle
    /\ BridgeIdle
    /\ SignalIdle

BillingNext ==
    \/ Counted /\ create_checkout /\ UNCHANGED <<bridge_vars, signal_vars, threads, mailbox>>
    \/ Counted /\ api_create_checkout /\ UNCHANGED <<bridge_vars, signal_vars, threads, mailbox>>
    \/ Counted /\ billing_stripe_webhook /\ UNCHANGED <<bridge_vars, signal_vars, threads, mailbox>>
    \/ Counted /\ stripe_webhook /\ UNCHANGED <<bridge_vars, signal_vars, threads, mailbox>>
    \/ LicenseTick /\ UNCHANGED <<bridge_vars, signal_vars, threads, mailbox>>

BillingSpec == BillingInit /\ [][BillingNext]_vars

(***************************************************************************)
(* license_server.py: /api/verify served by two threads at once (app.run   *)
(* serves each request in a thread of its own).  A step is what one        *)
(* request does up to and including one statement on licenses.db; every    *)
(* helper opens its own connection and commits its own statement.          *)
(***************************************************************************)
\* the tables the first of the two requests can find: one license, as
\* StoredRows gives it
RaceTables == {<<r>> : r \in StoredRows(KeySeq[1])}

Thread(pc, key, account, lic, reply) ==
    [pc |-> pc, key |-> key, account |-> account, lic |-> lic, reply |-> reply]

\* the request is answered
Done(t, reply) == [threads EXCEPT ![t].pc = "done", ![t].reply = <<reply>>]

\* bind_account_if_needed, lines 127-131: UPDATE licenses SET mt5_account = ?
\* WHERE license_key = ?
bind_update(license_key, account) ==
    [i \in 1..Len(licenses) |->
        IF licenses[i].license_key = license_key
        THEN [licenses[i] EXCEPT !.mt5_account = account]
        ELSE licenses[i]]

\* api_verify up to find_license: the body is parsed
verify_begin(t) ==
    /\ threads[t].pc = "idle"
    /\ \E body \in VerifyBodies :
          LET license_key == Strip(body.license_key)
              account     == Strip(body.account)
          IN  threads' =
                 IF body.kind = "malformed" THEN Done(t, Denied("bad_json"))
                 ELSE IF body.kind = "nondict"
                 THEN Done(t, LicReply("verify", 500, "", ""))
                 ELSE IF license_key = << >>
                 THEN Done(t, Denied("missing_license_key"))
                 ELSE [threads EXCEPT ![t] =
                          Thread("find", license_key, account, << >>, << >>)]
    /\ UNCHANGED licenses

\* api_verify, lines 238-247: find_license and the tests on the row it read
verify_find(t) ==
    LET lic == find_license(threads[t].key) IN
    /\ threads[t].pc = "find"
    /\ threads' =
          IF lic = << >> THEN Done(t, Denied("unknown_license"))
          ELSE IF lic[1].status # "active" THEN Done(t, Denied("inactive"))
          ELSE IF Expired(lic[1]) THEN [threads EXCEPT ![t].pc = "expire"]
          ELSE [threads EXCEPT ![t].pc = "bind"]
    /\ UNCHANGED licenses

\* api_verify, lines 248-249: set_license_status(license_key, "expired")
verify_expire(t) ==
    /\ threads[t].pc = "expire"
    /\ licenses' = set_license_status(threads[t].key, "expired")
    /\ threads' = Done(t, Denied("expired"))

\* bind_account_if_needed, lines 122-126: the SELECT and the test of the row;
\* api_verify, lines 252-255 when no UPDATE follows
verify_bind_select(t) ==
    LET lic == find_license(threads[t].key) IN
    /\ threads[t].pc = "bind"
    /\ threads' =
          IF lic = << >> THEN Done(t, LicReply("verify", 200, "OK", ""))
          ELSE IF lic[1].mt5_account = << >>
          THEN [threads EXCEPT ![t].pc = "update", ![t].lic = lic]
          ELSE IF lic[1].mt5_account # threads[t].account
          THEN Done(t, Denied("wrong_account"))
          ELSE Done(t, LicReply("verify", 200, "OK", ""))
    /\ UNCHANGED licenses

\* bind_account_if_needed, lines 127-133: the UPDATE, commit, and
\* lic["mt5_account"] = account; api_verify, lines 252-255 on that lic
verify_bind_update(t) ==
    /\ threads[t].pc = "update"
    /\ licenses' = bind_update(threads[t].key, threads[t].account)
    /\ threads' = Done(t, LicReply("verify", 200, "OK", ""))

RaceInit ==
    /\ licenses \in RaceTables
    /\ now = DaySeconds
    /\ lic_req = NoLicRequest
    /\ lic_resp = NoLicReply
    /\ lic_seq = 0
    /\ bill_req = NoBillRequest
    /\ bill_resp = NoBillReply
    /\ served = 0
    /\ RaceIdle
    /\ MailboxIdle
    /\ BridgeIdle
    /\ SignalIdle

RaceFrame ==
    UNCHANGED <<now, lic_req, lic_resp, lic_seq, bill_req, bill_resp, served,
                bridge_vars, signal_vars, mailbox>>

RaceNext ==
    \/ \E t \in Threads : verify_begin(t) /\ RaceFrame
    \/ \E t \in Threads : verify_find(t) /\ RaceFrame
    \/ \E t \in Threads : verify_expire(t) /\ RaceFrame
    \/ \E t \in Threads : verify_bind_select(t) /\ RaceFrame
    \/ \E t \in Threads : verify_bind_update(t) /\ RaceFrame
    \/ LicenseTick /\ UNCHANGED <<bridge_vars, signal_vars, threads, mailbox>>

RaceSpec == RaceInit /\ [][RaceNext]_vars

\* the two verifications, with the requests that move an expiry served at the
\* same time: each of them is one UPDATE of expires_at, committed on its own
\* connection between two statements of a verification; MaxRenewals bounds
\* how many of them a behaviour holds
MaxRenewals == 1

\* one more of these requests served
Renewal == served < MaxRenewals /\ served' = served + 1

RenewalRaceNext ==
    \/ RaceNext
    \/ Renewal /\ api_admin_set_expiry /\ NoBilling
          /\ UNCHANGED <<bridge_vars, signal_vars, threads, mailbox>>
    \/ Renewal /\ billing_stripe_webhook
          /\ UNCHANGED <<bridge_vars, signal_vars, threads, mailbox>>

RenewalRaceSpec == RaceInit /\ [][RenewalRaceNext]_vars

(***************************************************************************)
(* Archive/strategies/harmonic.py, on the signals Archive/app.py builds.   *)
(***************************************************************************)
\* the strings of the model with their str.lower() and str.upper()
CaseTable ==
    {<<"BUY", "buy", "BUY">>, <<"buy", "buy", "BUY">>,
     <<"SELL", "sell", "SELL">>, <<"Sell", "sell", "SELL">>,
     <<"HOLD", "hold", "HOLD">>,
     <<"up", "up", "UP">>, <<"UP", "up", "UP">>,
     <<"down", "down", "DOWN">>, <<"Down", "down", "DOWN">>,
     <<"flat", "flat", "FLAT">>, <<"", "", "">>}
Lower(s) == (CHOOSE t \in CaseTable : t[1] = s)[2]
Upper(s) == (CHOOSE t \in CaseTable : t[1] = s)[3]

\* fields of a validated TvAlert: side, supertrend and rsi (in tenths, around
\* the limits of both sides)
AlertSides  == {"BUY", "buy", "SELL", "Sell", "HOLD"}
AlertTrends == {<< >>, <<"">>, <<"up">>, <<"UP">>, <<"down">>, <<"Down">>, <<"flat">>}
AlertRsi    == {<< >>} \cup {<<r>> : r \in {349, 350, 399, 400, 500, 600, 601, 650, 651}}

\* price and PRZ bounds of an alert, in tenths: 45000.0, 45012.0 and 1.0, a zero
\* and a negative price; a PRZ bound absent, plausible or 0.0
AlertPrices  == {450000, 450120, 10, 0, -450000}
AlertPrzLow  == {<< >>, <<448000>>, <<0>>}
AlertPrzHigh == {<< >>, <<452000>>}

\* risk_reward of an alert: None, or a string as its sequence of tokens, ":"
\* being the separator: "", "1:2", "1:3", "3:2", "abc", "1:0", "0:1",
\* "1:2:3", "2", "1:"
AlertRiskRewards ==
    {<< >>, << << >> >>, << <<"1", ":", "2">> >>, << <<"1", ":", "3">> >>,
     << <<"3", ":", "2">> >>, << <<"abc">> >>, << <<"1", ":", "0">> >>,
     << <<"0", ":", "1">> >>, << <<"1", ":", "2", ":", "3">> >>, << <<"2">> >>,
     << <<"1", ":">> >>}

\* lot of an alert, in tenths: None, 0.0 or 0.5
AlertLots == {<< >>, <<0>>, <<5>>}

\* the fields of a validated TvAlert that tv_webhook reads
TvAlert(side, price, prz_low, prz_high, rsi, supertrend, risk_reward, lot) ==
    [side |-> side, price |-> price, prz_low |-> prz_low, prz_high |-> prz_high,
     rsi |-> rsi, supertrend |-> supertrend, risk_reward |-> risk_reward,
     lot |-> lot]

\* validated alerts: every side, rsi and supertrend at one price, every price,
\* PRZ and risk_reward without rsi and supertrend, and every lot
Alerts ==
    {TvAlert(side, 450000, << >>, << >>, rsi, st, << <<"1", ":", "2">> >>, << >>) :
        side \in AlertSides, rsi \in AlertRsi, st \in AlertTrends}
    \cup
    {TvAlert(side, price, lo, hi, << >>, << >>, rr, << >>) :
        side \in {"BUY", "Sell", "HOLD"}, price \in AlertPrices,
        lo \in AlertPrzLow, hi \in AlertPrzHigh, rr \in AlertRiskRewards}
    \cup
    {TvAlert("SELL", 450120, << >>, << >>, <<500>>, <<"down">>, << >>, lot) :
        lot \in AlertLots}

HarmonicSignal(side, price, prz_low, prz_high, rsi, supertrend, risk_reward) ==
    [side |-> side, price |-> price, prz_low |-> prz_low, prz_high |-> prz_high,
     rsi |-> rsi, supertrend |-> supertrend, risk_reward |-> risk_reward]

\* the signal tv_webhook builds: side in upper case, supertrend in lower
\* case, an empty supertrend becoming None
BuildSignal(data) ==
    HarmonicSignal(Upper(data.side), data.price, data.prz_low, data.prz_high,
                   data.rsi,
                   IF data.supertrend # << >> /\ data.supertrend[1] # ""
                   THEN <<Lower(data.supertrend[1])>> ELSE << >>,
                   data.risk_reward)

Signals == {BuildSignal(data) : data \in Alerts}

\* rr.split(":"): the parts between the separators
RECURSIVE Split(_)
Split(rr) ==
    IF \A i \in 1..Len(rr) : rr[i] # ":"
    THEN <<rr>>
    ELSE LET i == CHOOSE j \in 1..Len(rr) :
                      rr[j] = ":" /\ \A k \in 1..(j - 1) : rr[k] # ":"
         IN  <<SubSeq(rr, 1, i - 1)>> \o Split(SubSeq(rr, i + 1, Len(rr)))

\* the numerals of the model with their float()
Numerals == {<<"0", 0>>, <<"1", 1>>, <<"2", 2>>, <<"3", 3>>}

\* float(part) raises ValueError unless the part is a numeral
IsNumeral(part) == Len(part) = 1 /\ \E n \in Numerals : n[1] = part[1]
NumeralValue(part) == (CHOOSE n \in Numerals : n[1] = part[1])[2]

\* the default ratio 2.0; a ratio is a fraction <<numerator, denominator>>
DefaultRatio == <<2, 1>>

\* _rr_to_float: float(b) / float(a) for rr = "a:b"; the unpacking of another
\* number of parts, float() of a part that is no number and the division by
\* zero raise, and every exception gives 2.0
_rr_to_float(rr) ==
    LET parts == Split(rr) IN
    IF Len(parts) # 2 \/ ~IsNumeral(parts[1]) \/ ~IsNumeral(parts[2])
       \/ NumeralValue(parts[1]) = 0
    THEN DefaultRatio
    ELSE <<NumeralValue(parts[2]), NumeralValue(parts[1])>>

\* sig.risk_reward or "1:2"
RiskRewardOr(risk_reward) ==
    IF risk_reward = << >> \/ risk_reward[1] = << >>
    THEN <<"1", ":", "2">> ELSE risk_reward[1]

\* round(n / d, 1) of a value n / d in tenths, d > 0: the nearest tenth, the
\* even one of two that are equally near
Round1(n, d) ==
    LET q == n \div d
        r == n % d
    IN  IF 2 * r < d THEN q
        ELSE IF 2 * r > d THEN q + 1
        ELSE IF q % 2 = 0 THEN q ELSE q + 1

\* the stop-loss before rounding, as a fraction of tenths: the PRZ bound of
\* the side, or the price less (BUY) or plus (other sides) price * 0.0025
StopLoss(s) ==
    IF Upper(s.side) = "BUY"
    THEN IF s.prz_low # << >> THEN <<s.prz_low[1], 1>> ELSE <<399 * s.price, 400>>
    ELSE IF s.prz_high # << >> THEN <<s.prz_high[1], 1>> ELSE <<401 * s.price, 400>>

\* levels whose take-profit is computed from the rounded stop-loss
compute_sl_tp_from_rounded(s) ==
    LET rr == _rr_to_float(RiskRewardOr(s.risk_reward))
        sl == Round1(StopLoss(s)[1], StopLoss(s)[2])
    IN  <<sl, Round1(s.price * rr[2] + rr[1] * (s.price - sl), rr[2])>>

\* compute_sl_tp: tp = price + rr * (price - sl) for BUY and
\* price - rr * (sl - price) for the other sides, which is the same number;
\* both results rounded to one decimal
compute_sl_tp(s) ==
    LET rr == _rr_to_float(RiskRewardOr(s.risk_reward))
        sl == StopLoss(s)
    IN  <<Round1(sl[1], sl[2]),
          Round1(s.price * rr[2] * sl[2] + rr[1] * (s.price * sl[2] - sl[1]),
                 rr[2] * sl[2])>>

\* confirmations in which an rsi inside the range settles the matter
basic_confirmations_rsi_first(s) ==
    IF Upper(s.side) = "BUY"
    THEN IF s.rsi # << >> /\ 350 <= s.rsi[1] /\ s.rsi[1] <= 600 THEN TRUE
         ELSE IF s.rsi # << >> THEN FALSE
         ELSE ~(s.supertrend # << >> /\ s.supertrend[1] # ""
                /\ Lower(s.supertrend[1]) # "up")
    ELSE IF s.rsi # << >> /\ 400 <= s.rsi[1] /\ s.rsi[1] <= 650 THEN TRUE
         ELSE IF s.rsi # << >> THEN FALSE
         ELSE ~(s.supertrend # << >> /\ s.supertrend[1] # ""
                /\ Lower(s.supertrend[1]) # "down")

\* confirmations whose ranges exclude their limits
basic_confirmations_strict(s) ==
    IF Upper(s.side) = "BUY"
    THEN IF s.supertrend # << >> /\ s.supertrend[1] # ""
            /\ Lower(s.supertrend[1]) # "up"
         THEN FALSE
         ELSE IF s.rsi # << >> /\ ~(350 < s.rsi[1] /\ s.rsi[1] < 600)
         THEN FALSE
         ELSE TRUE
    ELSE IF s.supertrend # << >> /\ s.supertrend[1] # ""
            /\ Lower(s.supertrend[1]) # "down"
         THEN FALSE
         ELSE IF s.rsi # << >> /\ ~(400 < s.rsi[1] /\ s.rsi[1] < 650)
         THEN FALSE
         ELSE TRUE

\* confirmations that need an rsi
basic_confirmations_needs_rsi(s) ==
    IF Upper(s.side) = "BUY"
    THEN IF s.supertrend # << >> /\ s.supertrend[1] # ""
            /\ Lower(s.supertrend[1]) # "up"
         THEN FALSE
         ELSE IF s.rsi = << >> \/ ~(350 <= s.rsi[1] /\ s.rsi[1] <= 600)
         THEN FALSE
         ELSE TRUE
    ELSE IF s.supertrend # << >> /\ s.supertrend[1] # ""
            /\ Lower(s.supertrend[1]) # "down"
         THEN FALSE
         ELSE IF s.rsi = << >> \/ ~(400 <= s.rsi[1] /\ s.rsi[1] <= 650)
         THEN FALSE
         ELSE TRUE

\* basic_confirmations
basic_confirmations(s) ==
    IF Upper(s.side) = "BUY"
    THEN IF s.supertrend # << >> /\ s.supertrend[1] # ""
            /\ Lower(s.supertrend[1]) # "up"
         THEN FALSE
         ELSE IF s.rsi # << >> /\ ~(350 <= s.rsi[1] /\ s.rsi[1] <= 600)
         THEN FALSE
         ELSE TRUE
    ELSE IF s.supertrend # << >> /\ s.supertrend[1] # ""
            /\ Lower(s.supertrend[1]) # "down"
         THEN FALSE
         ELSE IF s.rsi # << >> /\ ~(400 <= s.rsi[1] /\ s.rsi[1] <= 650)
         THEN FALSE
         ELSE TRUE

\* tv_webhook, step 4: the confirmations of the signal
confirm_signal ==
    /\ confirmed = << >>
    /\ confirmed' = <<basic_confirmations(sig)>>
    /\ UNCHANGED <<sig, ratio, levels>>

\* compute_sl_tp, line 25: the ratio of the signal
parse_ratio ==
    /\ ratio = << >>
    /\ ratio' = <<_rr_to_float(RiskRewardOr(sig.risk_reward))>>
    /\ UNCHANGED <<sig, confirmed, levels>>

\* tv_webhook, step 5: the levels of the signal
level_signal ==
    /\ levels = << >>
    /\ levels' = compute_sl_tp(sig)
    /\ UNCHANGED <<sig, confirmed, ratio>>

SignalInit ==
    /\ sig \in Signals
    /\ confirmed = << >>
    /\ ratio = << >>
    /\ levels = << >>
    /\ HookIdle
    /\ BridgeIdle
    /\ LicenseIdle

SignalNext ==
    \/ confirm_signal /\ UNCHANGED <<bridge_vars, license_vars, hook_vars>>
    \/ parse_ratio /\ UNCHANGED <<bridge_vars, license_vars, hook_vars>>
    \/ level_signal /\ UNCHANGED <<bridge_vars, license_vars, hook_vars>>

SignalSpec == SignalInit /\ [][SignalNext]_vars

(***************************************************************************)
(* Archive/app.py: the route /tv-webhook.  The handler keeps nothing from  *)
(* one request to the next: a behaviour of WebhookSpec follows one request.*)
(***************************************************************************)
WEBHOOK_SECRET == "change-moi"
ARCHIVE_DEFAULT_LOT == 1

\* the header X-Webhook-Secret of a request: missing, empty, another value,
\* the secret
HookSecrets == {<< >>, <<"">>, <<"guess">>, <<WEBHOOK_SECRET>>}

\* a check that passes any header that was sent
_check_secret_given(header) == header # << >>

\* _check_secret: secret and secret == settings.WEBHOOK_SECRET
_check_secret(header) ==
    LET secret == IF header = << >> THEN "" ELSE header[1]
    IN  secret # "" /\ secret = WEBHOOK_SECRET

\* bodies of POST /tv-webhook: unparseable, JSON that is no object, an object
\* that TvAlert refuses (a required field missing, a price that is no
\* number), and the validated alerts
HookBodies ==
    {[kind |-> k, data |-> << >>] : k \in {"malformed", "nondict", "invalid"}}
    \cup {[kind |-> "alert", data |-> <<data>>] : data \in Alerts}

\* send_message: nothing is posted without token and chat id; the post is
\* delivered or fails, and a failure is logged and swallowed
MessageOutcomes == {"unset", "sent", "failed"}

\* append_row: the row is appended, or an exception is logged and swallowed
RowOutcomes == {"sent", "failed"}

\* zmq_client.send_order: the order is pushed, or send_string raises
ZmqOutcomes == {"sent", "raised"}

HookRequest(header, body) == [kind |-> "tv_webhook", secret |-> header, body |-> body]
HookReply(code, status, order) ==
    [kind |-> "tv_webhook", code |-> code, status |-> status, order |-> order]

\* data.lot or settings.DEFAULT_LOT
LotOr(lot) == IF lot = << >> \/ lot[1] = 0 THEN ARCHIVE_DEFAULT_LOT ELSE lot[1]

\* the order of step 6
HookOrder(data, s, sltp) ==
    [type |-> "ORDER", side |-> s.side, lot |-> LotOr(data.lot), price |-> s.price,
     sl |-> sltp[1], tp |-> sltp[2]]

\* a request answered before any signal is built
tv_refuse(code, error) ==
    /\ hook_resp' = HookReply(code, error, << >>)
    /\ sig' = << >>
    /\ confirmed' = << >>
    /\ ratio' = << >>
    /\ levels' = << >>
    /\ zmq' = << >>
    /\ notified' = << >>
    /\ sheet' = << >>

\* a rejection that forwards the order all the same
tv_reject_forwarding(data, s, tg, sh) ==
    /\ ratio' = <<_rr_to_float(RiskRewardOr(s.risk_reward))>>
    /\ levels' = compute_sl_tp(s)
    /\ zmq' = <<HookOrder(data, s, compute_sl_tp(s))>>
    /\ notified' = <<[msg |-> "rejected", outcome |-> tg]>>
    /\ sheet' = <<[status |-> "REJECTED", levels |-> << >>, outcome |-> sh]>>
    /\ hook_resp' = HookReply(200, "rejected", << >>)

\* tv_webhook, step 4 when the confirmations fail: message, row, answer
tv_reject(data, s, tg, sh) ==
    /\ ratio' = << >>
    /\ levels' = << >>
    /\ zmq' = << >>
    /\ notified' = <<[msg |-> "rejected", outcome |-> tg]>>
    /\ sheet' = <<[status |-> "REJECTED", levels |-> << >>, outcome |-> sh]>>
    /\ hook_resp' = HookReply(200, "rejected", << >>)

\* tv_webhook, steps 5 to 8: levels, order to the EA, message, row, answer;
\* send_order is under no try, so what it raises ends the request with the
\* 500 of Flask
tv_forward(data, s, zq, tg, sh) ==
    LET sltp  == compute_sl_tp(s)
        order == HookOrder(data, s, sltp)
    IN  /\ ratio' = <<_rr_to_float(RiskRewardOr(s.risk_reward))>>
        /\ levels' = sltp
        /\ IF zq = "raised"
           THEN /\ zmq' = << >>
                /\ notified' = << >>
                /\ sheet' = << >>
                /\ hook_resp' = HookReply(500, "internal_server_error", << >>)
           ELSE /\ zmq' = <<order>>
                /\ notified' = <<[msg |-> "sent", outcome |-> tg]>>
                /\ sheet' = <<[status |-> "SENT", levels |-> <<sltp>>, outcome |-> sh]>>
                /\ hook_resp' = HookReply(200, "sent", <<order>>)

\* POST /tv-webhook
tv_webhook ==
    \E header \in HookSecrets, body \in HookBodies :
       /\ hook_req' = HookRequest(header, body)
       /\ IF ~_check_secret(header)
          THEN tv_refuse(401, "unauthorized")
          ELSE IF body.kind \in {"malformed", "nondict"}
          THEN tv_refuse(500, "server_error")
          ELSE IF body.kind = "invalid"
          THEN tv_refuse(400, "bad_payload")
          ELSE LET data == body.data[1]
                   s    == BuildSignal(data)
               IN  /\ sig' = s
                   /\ confirmed' = <<basic_confirmations(s)>>
                   /\ IF ~basic_confirmations(s)
                      THEN \E tg \in MessageOutcomes, sh \in RowOutcomes :
                              tv_reject(data, s, tg, sh)
                      ELSE \E zq \in ZmqOutcomes, tg \in MessageOutcomes,
                              sh \in RowOutcomes :
                              tv_forward(data, s, zq, tg, sh)

WebhookInit ==
    /\ SignalIdle
    /\ BridgeIdle
    /\ LicenseIdle

WebhookNext ==
    hook_req.kind = "none" /\ tv_webhook /\ UNCHANGED <<bridge_vars, license_vars>>

WebhookSpec == WebhookInit /\ [][WebhookNext]_vars

(***************************************************************************)
(* The sinks of both programs.  server.py and Archive/app.py share no      *)
(* state: a behaviour of SinkSpec follows the bridge or the webhook.       *)
(***************************************************************************)
SinkNext ==
    \/ hook_req.kind = "none" /\ BridgeNext
    \/ BridgeIdle /\ WebhookNext

SinkSpec == BridgeInit /\ [][SinkNext]_vars

(***************************************************************************)
(* Properties of the bridge (BridgeSpec).                                  *)
(***************************************************************************)
Empty == Reply("next_order", 200, "EMPTY", << >>)
Sends(order) == Reply("next_order", 200, "", <<Payload(order)>>)

\* C1: last write wins. Whenever next_order answers after accepted pushes with
\* no clearing order_result in between, it answers the order built by the most
\* recent of those pushes, and so never one that push replaced.
C1_LastWriteWins ==
    (req.op = "next_order" /\ last_queued # << >>) => resp = Sends(last_queued[1])

\* push(A), push(B) with A still in the slot, then a poll that returned B
C1_Witness ==
    /\ req.op = "next_order"
    /\ overwritten
    /\ last_queued # << >>
    /\ resp = Sends(last_queued[1])

\* C2: next_order never changes the slot, and a next_order that follows a
\* next_order gives the very same answer (same id, direction, symbol, lot, sl,
\* tp, or EMPTY again).
C2_PeekIsIdempotent ==
    [][req'.op = "next_order" /\ clock' = clock =>
          /\ pending_order' = pending_order
          /\ (req.op = "next_order" => resp' = resp)]_vars

\* a second consecutive poll of a pending order
C2_Witness ==
    /\ polls = 2
    /\ pending_order # << >>
    /\ resp = Sends(pending_order[1])

\* C3 as stated: whenever an order_result request has returned, whatever its
\* payload, the slot is empty.
C3_AnyResultClears ==
    req.op = "order_result" => pending_order = << >>

\* C3, amended: an order_result whose body is a JSON object leaves the slot
\* empty, whatever the object holds and whether or not an order was pending;
\* one whose body is malformed or no object leaves the slot as it was.
C3_ObjectResultClears ==
    /\ [](req.op = "order_result" /\ req.body.kind = "dict" => pending_order = << >>)
    /\ [][req'.op = "order_result" /\ req'.body.kind # "dict"
             => pending_order' = pending_order]_vars

\* an order_result with an object body has removed a pending order
C3_Witness ==
    /\ req.op = "order_result"
    /\ req.body.kind = "dict"
    /\ last_cleared # << >>
    /\ pending_order = << >>

\* C4 as stated: every order_result request is answered ACK with status 200.
C4_AlwaysAck ==
    req.op = "order_result" => resp = Reply("order_result", 200, "ACK", << >>)

\* C4, amended: an order_result request is answered ACK with status 200 when
\* its body is a JSON object or is malformed JSON, and BAD_FORMAT with status
\* 400 when its body is valid JSON that is not an object.
C4_AckUnlessNonObject ==
    req.op = "order_result" =>
        resp = IF req.body.kind = "nondict"
               THEN Reply("order_result", 400, "BAD_FORMAT", << >>)
               ELSE Reply("order_result", 200, "ACK", << >>)

\* a malformed body was answered ACK while an order was pending
C4_Witness ==
    /\ req.op = "order_result"
    /\ req.body.kind = "malformed"
    /\ resp.text = "ACK"
    /\ pending_order # << >>

\* C5: the slot goes from holding an order to empty only in an order_result
\* request; no push_order, accepted or rejected, no next_order and no failed
\* notification empties it.
C5_OnlyResultEmpties ==
    [][pending_order # << >> /\ pending_order' = << >>
          => req'.op = "order_result" /\ resp'.op = "order_result"]_vars

\* the slot went from an order to empty in an order_result whose notification
\* failed
C5_Witness ==
    /\ last_cleared # << >>
    /\ pending_order = << >>
    /\ resp.op = "order_result"
    /\ telegram.outcome = "failed"

\* C6: next_order on an empty slot answers the sentinel EMPTY with status 200,
\* at once: the request is served in every state, before any push and after
\* every clear.
C6_EmptySentinel ==
    /\ ENABLED next_order
    /\ (req.op = "next_order" /\ pending_order = << >> => resp = Empty)

\* a poll answered EMPTY after order_result had cleared an order
C6_Witness ==
    /\ req.op = "next_order"
    /\ last_cleared # << >>
    /\ pending_order = << >>
    /\ resp = Empty

\* C7 as stated: an accepted push never gives its order an id that an earlier
\* accepted push gave.
C7_UniqueIds ==
    [][req'.op = "push_order" /\ resp'.text = "QUEUED" /\ clock' = clock
          => pending_order'[1].id \notin issued_ids]_vars

\* C8 as stated: a push whose direction is not BUY or SELL is answered
\* BAD_DIRECTION (400), one whose body cannot be parsed BAD_JSON (400).
C8_BadDirectionAlways ==
    req.op = "push_order" =>
        /\ (req.body.kind = "malformed"
               => resp = Reply("push_order", 400, "BAD_JSON", << >>))
        /\ (req.body.kind = "dict" /\ ~DirectionOk(req.body.direction)
               => resp = Reply("push_order", 400, "BAD_DIRECTION", << >>))

\* the fields of a body that float() refuses
RefusedFloat(body) ==
    \/ ~FloatOk(Get(body.lot, JNum(DEFAULT_LOT)))
    \/ ~FloatOk(Get(body.sl, JNum(0)))
    \/ ~FloatOk(Get(body.tp, JNum(0)))

\* C8, amended: a push is answered BAD_JSON (400) when its body cannot be
\* parsed, is no JSON object, or has a lot, sl or tp that does not convert to a
\* float, whatever its direction; otherwise a direction that is not exactly BUY
\* or SELL is answered BAD_DIRECTION (400). In both cases the slot is left
\* unchanged, and every order held in the slot has direction BUY or SELL.
C8_RejectedPush ==
    /\ [](req.op = "push_order" =>
            resp = IF req.body.kind # "dict" \/ RefusedFloat(req.body)
                   THEN Reply("push_order", 400, "BAD_JSON", << >>)
                   ELSE IF req.body.direction \notin {JStr("BUY"), JStr("SELL")}
                   THEN Reply("push_order", 400, "BAD_DIRECTION", << >>)
                   ELSE Reply("push_order", 200, "QUEUED", << >>))
    /\ [](pending_order # << >> => pending_order[1].direction \in {"BUY", "SELL"})
    /\ [][req'.op = "push_order" /\ resp'.code = 400
             => pending_order' = pending_order]_vars

\* a bad direction was answered BAD_DIRECTION and the pending order stayed
C8_Witness ==
    /\ req.op = "push_order"
    /\ req.body.kind = "dict"
    /\ ~DirectionOk(req.body.direction)
    /\ resp.text = "BAD_DIRECTION"
    /\ pending_order # << >>

(***************************************************************************)
(* Properties of the license server (LicenseSpec).                         *)
(***************************************************************************)
\* a step that serves POST /api/verify
VerifyStep == lic_seq' # lic_seq /\ lic_req'.op = "verify"

\* the row of a key, for a key that is in the table
RowOf(key) == licenses[CHOOSE i \in 1..Len(licenses) : licenses[i].license_key = key]
InTable(key) == \E i \in 1..Len(licenses) : licenses[i].license_key = key

\* the verdict the stated checks give, applied in the order not_found, inactive,
\* expired, wrong_account, with "never expires" read as expires_at = 0
\* (zero_only) or as expires_at <= 0
Verdict(zero_only, key, account) ==
    IF ~InTable(key) THEN "not_found"
    ELSE LET lic == RowOf(key)
             never == IF zero_only THEN lic.expires_at = 0 ELSE lic.expires_at <= 0
         IN  IF lic.status # "active" THEN "inactive"
             ELSE IF ~never /\ now > lic.expires_at THEN "expired"
             ELSE IF lic.mt5_account # << >> /\ lic.mt5_account # account
             THEN "wrong_account"
             ELSE "valid"

\* the verdict a reply of /api/verify carries
Answered(reply) ==
    IF reply.status = "OK" THEN "valid"
    ELSE IF reply.reason = "unknown_license" THEN "not_found"
    ELSE reply.reason

\* a verify request that names a key: a JSON object with a non-empty license_key
NamesKey(request) == request.kind = "dict" /\ request.key # << >>

\* C9 as stated: verify answers valid exactly when, at the time of the call,
\* the license exists, is active, has expires_at = 0 or now <= expires_at, and
\* is bound to no device or to the presented one; the checks come in the order
\* not_found, inactive, expired, wrong_account.
C9_ValidIffZeroOrFuture ==
    [][VerifyStep =>
          IF NamesKey(lic_req')
          THEN Answered(lic_resp') = Verdict(TRUE, lic_req'.key, lic_req'.account)
          ELSE lic_resp'.status # "OK"]_vars

\* C9, amended: the same with "never expires" being expires_at <= 0: verify
\* answers valid exactly when the license exists, is active, has
\* expires_at <= 0 or now <= expires_at, and is bound to no device or to the
\* presented one (key and device as stripped by the handler); the checks come
\* in the order not_found, inactive, expired, wrong_account.
C9_ValidIff ==
    [][VerifyStep =>
          IF NamesKey(lic_req')
          THEN Answered(lic_resp') = Verdict(FALSE, lic_req'.key, lic_req'.account)
          ELSE lic_resp'.status # "OK"]_vars

\* a verify answered OK for a bound license on the very second it expires
C9_Witness ==
    /\ lic_req.op = "verify"
    /\ lic_resp.status = "OK"
    /\ InTable(lic_req.key)
    /\ RowOf(lic_req.key).expires_at = now
    /\ RowOf(lic_req.key).mt5_account = lic_req.account
    /\ lic_req.account # << >>

\* C10: a verify of an active license whose expires_at is set (> 0) and past
\* sets its status to expired, changes nothing else, and answers DENIED with
\* reason expired; a verify of a license already expired answers DENIED and
\* changes nothing; and no request brings an expired license back to active,
\* so every later verify of that key is DENIED.
C10_ExpiryOnVerify ==
    /\ [][VerifyStep /\ NamesKey(lic_req') /\ InTable(lic_req'.key) =>
             LET lic == RowOf(lic_req'.key) IN
             /\ (lic.status = "active" /\ lic.expires_at > 0 /\ now > lic.expires_at
                    => /\ lic_resp' = Denied("expired")
                       /\ licenses' = [i \in 1..Len(licenses) |->
                                          IF licenses[i].license_key = lic_req'.key
                                          THEN [licenses[i] EXCEPT !.status = "expired"]
                                          ELSE licenses[i]])
             /\ (lic.status = "expired"
                    => /\ lic_resp'.status = "DENIED"
                       /\ licenses' = licenses)]_vars
    /\ [][\A i \in 1..Len(licenses) :
             licenses[i].status = "expired" =>
                 /\ Len(licenses') >= i
                 /\ licenses'[i].license_key = licenses[i].license_key
                 /\ licenses'[i].status # "active"]_vars

\* a verify of a license that an earlier verify had set to expired
C10_Witness ==
    /\ lic_req.op = "verify"
    /\ InTable(lic_req.key)
    /\ RowOf(lic_req.key).status = "expired"
    /\ lic_resp = Denied("inactive")

(***************************************************************************)
(* Properties of the table under every route (StoreSpec).                  *)
(***************************************************************************)
\* row i is still there, under the same key
Kept(i) == Len(licenses') >= i /\ licenses'[i].license_key = licenses[i].license_key

\* C11: device binding is permanent.  Once the mt5_account of a license is
\* non-empty, no step of any route (verify, check_license, the admin routes,
\* the checkout and webhook routes of both servers) changes it; and a verify
\* that names the license and presents another device is DENIED, with reason
\* wrong_account when the license is active and not expired, and leaves the
\* stored device as it was.
C11_BindingPermanent ==
    /\ [][\A i \in 1..Len(licenses) :
             licenses[i].mt5_account # << >> =>
                 Kept(i) /\ licenses'[i].mt5_account = licenses[i].mt5_account]_vars
    /\ [][VerifyStep /\ NamesKey(lic_req') /\ InTable(lic_req'.key) =>
             LET lic == RowOf(lic_req'.key) IN
             lic.mt5_account \notin {<< >>, lic_req'.account} =>
                 /\ lic_resp'.status = "DENIED"
                 /\ (lic.status = "active" /\ ~Expired(lic)
                        => lic_resp' = Denied("wrong_account") /\ licenses' = licenses)]_vars

\* a verify that presented another device than the bound one was refused
C11_Witness ==
    /\ lic_req.op = "verify"
    /\ lic_resp = Denied("wrong_account")
    /\ InTable(lic_req.key)
    /\ RowOf(lic_req.key).mt5_account \notin {<< >>, lic_req.account}

\* a step that serves GET /api/check_license
CheckStep == lic_seq' # lic_seq /\ lic_req'.op = "check_license"

\* C12: status "expired" is written only by a verification.  Whenever a step
\* leaves a row in status expired that was not so before, the row was there,
\* the step is a POST /api/verify or a GET /api/check_license naming its key,
\* and the row was active with expires_at > 0 and now > expires_at; so no
\* admin route and no checkout or webhook request sets expired.
C12_ExpiredOnlyByVerification ==
    [][\A i \in 1..Len(licenses') :
          licenses'[i].status = "expired"
          /\ (i > Len(licenses) \/ licenses[i].status # "expired")
          => /\ i <= Len(licenses)
             /\ VerifyStep \/ CheckStep
             /\ lic_req'.key = licenses[i].license_key
             /\ licenses[i].status = "active"
             /\ licenses[i].expires_at > 0
             /\ now > licenses[i].expires_at]_vars

\* a check_license that found the license past its expiry and marked it
C12_Witness ==
    /\ lic_req.op = "check_license"
    /\ lic_resp.reason = "expired"
    /\ InTable(lic_req.key)
    /\ RowOf(lic_req.key).status = "expired"

\* C13: in every reachable state no two rows share a license_key, and no
\* step of any route (verify, check_license, the admin routes, the checkout
\* and webhook routes) removes a row or changes its license_key.
C13_KeyUniqueImmutable ==
    /\ [](\A i, j \in 1..Len(licenses) :
             i # j => licenses[i].license_key # licenses[j].license_key)
    /\ [][\A i \in 1..Len(licenses) : Kept(i)]_vars

\* a webhook or checkout whose create_license drew a key already in the
\* table was refused, the table holding two licenses
C13_Witness ==
    /\ Len(licenses) = 2
    /\ bill_req.op \in {"billing_webhook", "billing_checkout"}
    /\ bill_resp.code = 500
    /\ bill_resp.error = ""

(***************************************************************************)
(* Properties of the checkout and webhook routes.                          *)
(***************************************************************************)
\* a step that serves a checkout or webhook request
BillingStep == lic_seq' # lic_seq /\ bill_req'.op # "none"

\* the events on which billing_server.py grants a period
GrantEvents == {"checkout.session.completed", "invoice.payment_succeeded"}

\* the request called create_or_extend_license_for_email, which returned
Called(request, reply) ==
    \/ /\ request.op = "billing_checkout"
       /\ request.kind = "dict"
       /\ request.email # << >>
       /\ ~(reply.code = 500 /\ reply.error = "")
    \/ /\ request.op = "billing_webhook"
       /\ request.kind = "event"
       /\ request.type \in GrantEvents
       /\ request.email # << >>
       /\ reply.code = 200

\* the days_valid of that call
DaysOf(request) == IF request.days = << >> THEN GrantDays ELSE request.days[1]

\* the rows of an email
LicensesOf(email) == {i \in 1..Len(licenses) : licenses[i].email = email}

\* C14: createOrExtend called twice in succession for an email with no prior
\* license.  A call for an email that has no license adds exactly one row,
\* active, unbound, with expires_at = now + daysValid*86400, and returns its
\* key; a call that comes right after a call for the same email, the email
\* having that one license, adds no row, returns the same key and sets
\* expires_at to max(previous expires_at, now) + daysValid*86400, leaving
\* the rest of the table as it was.
C14_CreateThenExtend ==
    [][BillingStep /\ Called(bill_req', bill_resp') =>
          LET email == bill_req'.email
              days  == DaysOf(bill_req')
              n     == Len(licenses)
          IN
          /\ LicensesOf(email) = {} =>
                /\ Len(licenses') = n + 1
                /\ SubSeq(licenses', 1, n) = licenses
                /\ licenses'[n + 1].license_key
                      \notin {licenses[i].license_key : i \in 1..n}
                /\ licenses'[n + 1].email = email
                /\ licenses'[n + 1].status = "active"
                /\ licenses'[n + 1].mt5_account = << >>
                /\ licenses'[n + 1].expires_at = now + days * DaySeconds
                /\ bill_resp'.code = 200 /\ bill_req'.op = "billing_checkout"
                      => bill_resp'.license_key = licenses'[n + 1].license_key
          /\ /\ Called(bill_req, bill_resp)
             /\ bill_req.email = email
             /\ \E k \in 1..n : LicensesOf(email) = {k} /\ licenses[k].status = "active"
             => LET k == CHOOSE i \in LicensesOf(email) : TRUE IN
                /\ licenses' = [licenses EXCEPT ![k].expires_at =
                                  Max(licenses[k].expires_at, now) + days * DaySeconds]
                /\ bill_resp'.code = 200 /\ bill_req'.op = "billing_checkout"
                      => bill_resp'.license_key = licenses[k].license_key]_vars

\* the second request served on an empty table was, like the first, a grant
\* for the same email: one license, paid two periods ahead
C14_Witness ==
    /\ served = 2
    /\ Called(bill_req, bill_resp)
    /\ Len(licenses) = 1
    /\ licenses[1].email = bill_req.email
    /\ licenses[1].status = "active"
    /\ licenses[1].expires_at >= 2 * GrantDays * DaySeconds

\* the license is valid after the call for at least as long as before,
\* expires_at = 0 meaning that it never expires
NotShortened(before, after) ==
    IF before = 0 THEN after = 0 ELSE after = 0 \/ after >= before

\* C15: createOrExtend on an email that has an active license never shortens
\* that license's validity, whatever its expires_at (0 included) and
\* whatever daysValid the caller passes.
C15_NeverShortens ==
    [][BillingStep /\ Called(bill_req', bill_resp')
       /\ ActiveRowsOf(bill_req'.email) # {} =>
          LET k == CHOOSE i \in ActiveRowsOf(bill_req'.email) :
                      \A j \in ActiveRowsOf(bill_req'.email) : i <= j
          IN  NotShortened(licenses[k].expires_at, licenses'[k].expires_at)]_vars

\* the request delivers again the event that the latest request delivered
\* to the same webhook and that was answered 200
Redelivery ==
    /\ BillingStep
    /\ bill_req'.kind = "event"
    /\ bill_req' = bill_req
    /\ bill_resp.code = 200

\* C16: billing event handling is idempotent.  When billing_server.py is
\* delivered again the checkout-completed or invoice-payment-succeeded event
\* it has just handled, the table stays as the first delivery left it: no
\* further period on expires_at, no further license.
C16_ReplayChangesNothing ==
    [][Redelivery /\ bill_req'.op = "billing_webhook" /\ bill_req'.type \in GrantEvents
          => licenses' = licenses]_vars

\* the events on which billing_server.py deactivates
RevokeEvents == {"invoice.payment_failed", "customer.subscription.deleted"}

\* the request called deactivate_licenses_by_email
Deactivated(request) ==
    /\ request.op = "billing_webhook"
    /\ request.kind = "event"
    /\ request.type \in RevokeEvents
    /\ request.email # << >>

\* C17: deactivateAllActive(email) leaves no license of that email active,
\* however many were, and changes nothing else: the table keeps its rows,
\* the licenses of other emails are as before, and every license keeps its
\* license_key, email, expires_at and mt5_account.
C17_DeactivateFrame ==
    [][BillingStep /\ Deactivated(bill_req') =>
          /\ Len(licenses') = Len(licenses)
          /\ \A i \in 1..Len(licenses) :
                /\ licenses'[i].email = bill_req'.email => licenses'[i].status # "active"
                /\ licenses[i].email # bill_req'.email => licenses'[i] = licenses[i]
                /\ licenses[i].status # "active" => licenses'[i] = licenses[i]
                /\ licenses'[i].license_key = licenses[i].license_key
                /\ licenses'[i].email = licenses[i].email
                /\ licenses'[i].expires_at = licenses[i].expires_at
                /\ licenses'[i].mt5_account = licenses[i].mt5_account]_vars

\* the third request deactivated for an email the two licenses that the
\* first two requests had granted a period to, one each
C17_Witness ==
    /\ served = 3
    /\ Deactivated(bill_req)
    /\ Len(licenses) = 2
    /\ \A i \in 1..2 :
          /\ licenses[i].email = bill_req.email
          /\ licenses[i].status = "inactive"
          /\ licenses[i].expires_at >= GrantDays * DaySeconds

\* the step adds a license or writes an expires_at
Grants ==
    \/ Len(licenses') > Len(licenses)
    \/ \E i \in 1..Len(licenses) :
          Len(licenses') >= i /\ licenses'[i].expires_at # licenses[i].expires_at

\* C18: licenses are gated behind payment.  A step that adds a license or
\* changes an expiry serves an admin call (create_license, set_expiry) or a
\* webhook delivering a checkout-completed or invoice-payment-succeeded
\* event; a request that starts a checkout changes no license.
C18_GatedBehindPayment ==
    [][Grants =>
          /\ lic_seq' # lic_seq
          /\ \/ lic_req'.op \in {"create_license", "set_expiry"}
             \/ /\ bill_req'.op \in {"billing_webhook", "webhook"}
                /\ bill_req'.kind = "event"
                /\ bill_req'.type \in GrantEvents]_vars

\* the event types each webhook acts on
Recognized(op) ==
    IF op = "billing_webhook" THEN GrantEvents \cup RevokeEvents
    ELSE {"checkout.session.completed"}

\* C19: a payment-webhook request, to either server, is answered 500 when
\* the signing secret is not configured, 400 when the signature is refused
\* and 200 when the event is of a type the server does not act on; in all
\* three cases the table of licenses stays as it was.
C19_WebhookRefusals ==
    [][BillingStep /\ bill_req'.op \in {"billing_webhook", "webhook"} =>
          /\ bill_req'.kind = "no_secret"
                => bill_resp'.code = 500 /\ licenses' = licenses
          /\ bill_req'.kind = "bad_signature"
                => bill_resp'.code = 400 /\ licenses' = licenses
          /\ bill_req'.kind = "event" /\ bill_req'.type \notin Recognized(bill_req'.op)
                => bill_resp'.code = 200 /\ licenses' = licenses]_vars

\* an event of a type billing_server.py does not know, about a customer who
\* holds an active license, was acknowledged
C19_Witness ==
    /\ bill_req.op = "billing_webhook"
    /\ bill_req.kind = "event"
    /\ bill_req.type \notin Recognized("billing_webhook")
    /\ bill_resp.code = 200
    /\ ActiveRowsOf(bill_req.email) # {}

(***************************************************************************)
(* Properties of the confirmations (SignalSpec).                           *)
(***************************************************************************)
\* C20: the trend filter is a veto independent of the oscillator.  Every BUY
\* signal whose supertrend is present and not "up", and every SELL signal
\* whose supertrend is present and not "down", is rejected, whatever its
\* rsi: absent, inside the range of its side or outside it.
C20_TrendVeto ==
    confirmed # << >> =>
        /\ sig.side = "BUY" /\ sig.supertrend # << >> /\ sig.supertrend[1] # "up"
              => confirmed = <<FALSE>>
        /\ sig.side = "SELL" /\ sig.supertrend # << >> /\ sig.supertrend[1] # "down"
              => confirmed = <<FALSE>>

\* a BUY signal against the trend was rejected with an rsi inside the range
C20_Witness ==
    /\ sig # << >>
    /\ sig.side = "BUY"
    /\ sig.supertrend = <<"down">>
    /\ sig.rsi = <<500>>
    /\ confirmed = <<FALSE>>

\* C21: the rsi ranges include their limits.  With the supertrend absent or
\* agreeing with the side, a SELL signal that has an rsi is accepted exactly
\* when 40 <= rsi <= 65 (39.9 rejected, 40.0 and 65.0 accepted, 65.1
\* rejected) and a BUY signal exactly when 35 <= rsi <= 60.
C21_InclusiveRanges ==
    (confirmed # << >> /\ sig.rsi # << >>) =>
        /\ sig.side = "SELL" /\ sig.supertrend \in {<< >>, <<"down">>}
              => (confirmed[1] <=> (400 <= sig.rsi[1] /\ sig.rsi[1] <= 650))
        /\ sig.side = "BUY" /\ sig.supertrend \in {<< >>, <<"up">>}
              => (confirmed[1] <=> (350 <= sig.rsi[1] /\ sig.rsi[1] <= 600))

\* a SELL signal with the trend and an rsi of exactly 40.0 was accepted
C21_Witness ==
    /\ sig # << >>
    /\ sig.side = "SELL"
    /\ sig.supertrend = <<"down">>
    /\ sig.rsi = <<400>>
    /\ confirmed = <<TRUE>>

\* the signal without its rsi, and without its supertrend
WithoutRsi(s) == [s EXCEPT !.rsi = << >>]
WithoutTrend(s) == [s EXCEPT !.supertrend = << >>]

\* C22: an absent optional field never causes a rejection.  A signal with
\* neither supertrend nor rsi is accepted, whatever its side, and a signal
\* that is accepted is still accepted by basic_confirmations when its rsi,
\* its supertrend or both are taken away.
C22_AbsentNeverRejects ==
    confirmed # << >> =>
        /\ sig.supertrend = << >> /\ sig.rsi = << >> => confirmed = <<TRUE>>
        /\ confirmed = <<TRUE>> =>
              /\ basic_confirmations(WithoutRsi(sig))
              /\ basic_confirmations(WithoutTrend(sig))
              /\ basic_confirmations(WithoutRsi(WithoutTrend(sig)))

\* a BUY signal that has neither supertrend nor rsi was accepted
C22_Witness ==
    /\ sig # << >>
    /\ sig.side = "BUY"
    /\ sig.supertrend = << >>
    /\ sig.rsi = << >>
    /\ confirmed = <<TRUE>>

\* the string compute_sl_tp parses, and its parts
ParsedString == IF sig.risk_reward = << >> THEN <<"1", ":", "2">> ELSE sig.risk_reward[1]
WellFormed(parts) ==
    /\ Len(parts) = 2
    /\ IsNumeral(parts[1]) /\ NumeralValue(parts[1]) # 0
    /\ IsNumeral(parts[2]) /\ NumeralValue(parts[2]) # 0

\* C23: parsing the risk-reward string never raises; every malformed string
\* (a part that is no number, a number of parts other than two, a zero
\* component as in "1:0" or "0:1", the empty string) gives the default ratio
\* 2.0, and a well-formed "A:B" gives B/A.
C23_ParseDefaults ==
    ratio # << >> =>
        IF WellFormed(Split(ParsedString))
        THEN ratio[1] = <<NumeralValue(Split(ParsedString)[2]),
                          NumeralValue(Split(ParsedString)[1])>>
        ELSE ratio[1] = DefaultRatio

\* the ratio of the signal, b / a, and the stop-loss the formulas give for it,
\* a fraction <<n, d>> of tenths
RatioOf(s) == _rr_to_float(RiskRewardOr(s.risk_reward))
FormulaStop(s) ==
    IF s.side = "BUY"
    THEN IF s.prz_low # << >> THEN <<s.prz_low[1], 1>>
         ELSE <<400 * s.price - s.price, 400>>
    ELSE IF s.prz_high # << >> THEN <<s.prz_high[1], 1>>
         ELSE <<400 * s.price + s.price, 400>>

\* the take-profit the formulas give from a stop-loss n / d, over the
\* denominator a * d
FormulaTake(s, stop) ==
    LET b == RatioOf(s)[1]
        a == RatioOf(s)[2]
    IN  IF s.side = "BUY"
        THEN <<s.price * a * stop[2] + b * (s.price * stop[2] - stop[1]), a * stop[2]>>
        ELSE <<s.price * a * stop[2] - b * (stop[1] - s.price * stop[2]), a * stop[2]>>

\* C24 as stated: for BUY and SELL signals the returned stop-loss is the PRZ
\* bound of the side or the price less (plus) 0.25% of it, and the returned
\* take-profit is price + ratio * (price - stopLoss) for BUY and
\* price - ratio * (stopLoss - price) for SELL, for every input.
C24_Formulas ==
    (levels # << >> /\ sig.side \in {"BUY", "SELL"}) =>
        /\ levels[1] * FormulaStop(sig)[2] = FormulaStop(sig)[1]
        /\ levels[2] * FormulaTake(sig, <<levels[1], 1>>)[2]
              = FormulaTake(sig, <<levels[1], 1>>)[1]

\* C24, amended: the returned stop-loss is the stop-loss of the formulas
\* rounded to one decimal, and the returned take-profit is the take-profit
\* that the formulas give from the unrounded stop-loss, rounded to one
\* decimal; price 45000, BUY, prz_low 44800, "1:2" gives (44800.0, 45400.0)
\* and price 45000, SELL, no prz_high, "1:3" gives (45112.5, 44662.5).
C24_RoundedFormulas ==
    (levels # << >> /\ sig.side \in {"BUY", "SELL"}) =>
        /\ levels[1] = Round1(FormulaStop(sig)[1], FormulaStop(sig)[2])
        /\ levels[2] = Round1(FormulaTake(sig, FormulaStop(sig))[1],
                              FormulaTake(sig, FormulaStop(sig))[2])
        /\ (sig.side = "BUY" /\ sig.price = 450000 /\ sig.prz_low = <<448000>>
            /\ sig.risk_reward = << <<"1", ":", "2">> >>)
              => levels = <<448000, 454000>>
        /\ (sig.side = "SELL" /\ sig.price = 450000 /\ sig.prz_high = << >>
            /\ sig.risk_reward = << <<"1", ":", "3">> >>)
              => levels = <<451125, 446625>>

\* price 45012.0, BUY, no prz_low, "1:3": the stop-loss 44899.47 came back as
\* 44899.5 and the take-profit 45349.59 as 45349.6
C24_Witness ==
    /\ sig # << >>
    /\ sig.side = "BUY"
    /\ sig.price = 450120
    /\ sig.prz_low = << >>
    /\ sig.risk_reward = << <<"1", ":", "3">> >>
    /\ levels = <<448995, 453496>>

(***************************************************************************)
(* Properties of the signal webhook (WebhookSpec).                         *)
(***************************************************************************)
\* C25: every signal the pipeline evaluates and every order it forwards has
\* side BUY or SELL and a price above zero; an alert with another side or a
\* price that is not positive is neither evaluated nor forwarded.
C25_SideAndPrice ==
    /\ sig # << >> => (sig.side \in {"BUY", "SELL"} /\ sig.price > 0)
    /\ zmq # << >> => (zmq[1].side \in {"BUY", "SELL"} /\ zmq[1].price > 0)

\* C26: a rejected signal is never forwarded.  When the confirmations fail
\* the handler issues the rejection message and the REJECTED row, answers
\* 200 with status rejected, computes no levels and pushes no order; an
\* order is pushed only for a signal that the confirmations accepted.
C26_RejectedNeverForwarded ==
    /\ confirmed = <<FALSE>> =>
          /\ zmq = << >>
          /\ levels = << >>
          /\ hook_resp = HookReply(200, "rejected", << >>)
          /\ notified # << >> /\ notified[1].msg = "rejected"
          /\ sheet # << >> /\ sheet[1].status = "REJECTED"
    /\ zmq # << >> => confirmed = <<TRUE>>

\* a SELL alert against the trend was answered as rejected
C26_Witness ==
    /\ hook_resp.kind = "tv_webhook"
    /\ sig # << >>
    /\ sig.side = "SELL"
    /\ sig.supertrend = <<"up">>
    /\ confirmed = <<FALSE>>
    /\ hook_resp.status = "rejected"
    /\ zmq = << >>

\* the handler did nothing beyond answering
NothingDone ==
    /\ sig = << >>
    /\ confirmed = << >>
    /\ levels = << >>
    /\ zmq = << >>
    /\ notified = << >>
    /\ sheet = << >>

\* the header is missing, empty or differs from the secret
BadSecret(header) == header = << >> \/ header[1] = "" \/ header[1] # WEBHOOK_SECRET

C28_SinkFailuresSwallowed ==
    /\ (req.op = "push_order" /\ PushParses(req.body)
        /\ DirectionOk(req.body.direction) /\ telegram.outcome = "failed") =>
          /\ resp = Reply("push_order", 200, "QUEUED", << >>)
          /\ pending_order # << >>
          /\ pending_order = last_queued
          /\ pending_order[1].direction = req.body.direction.s
    /\ (req.op = "order_result" /\ req.body.kind = "dict"
        /\ telegram.outcome = "failed") =>
          /\ resp = Reply("order_result", 200, "ACK", << >>)
          /\ pending_order = << >>
    /\ (notified # << >>
        /\ (notified[1].outcome # "sent" \/ sheet[1].outcome # "sent")) =>
          IF confirmed = <<TRUE>>
          THEN zmq # << >> /\ hook_resp = HookReply(200, "sent", zmq)
          ELSE zmq = << >> /\ hook_resp = HookReply(200, "rejected", << >>)

\* a push whose Telegram message failed was stored and answered QUEUED
C28_Witness ==
    /\ req.op = "push_order"
    /\ telegram = [msg |-> "new_order", outcome |-> "failed"]
    /\ resp.text = "QUEUED"
    /\ pending_order # << >>

(***************************************************************************)
(* Properties of concurrent verifications (RaceSpec).                      *)
(***************************************************************************)
\* both requests were answered OK, for one key and two different devices
BothValid ==
    \E t \in Threads, u \in Threads :
       /\ threads[t].pc = "done" /\ threads[u].pc = "done"
       /\ threads[t].reply = <<LicReply("verify", 200, "OK", "")>>
       /\ threads[u].reply = <<LicReply("verify", 200, "OK", "")>>
       /\ threads[t].key = threads[u].key
       /\ threads[t].account # << >> /\ threads[u].account # << >>
       /\ threads[t].account # threads[u].account

\* no step replaces a device that is stored
NoOverwrite ==
    \A i \in 1..Len(licenses) :
       licenses[i].mt5_account # << >> =>
          licenses'[i].mt5_account = licenses[i].mt5_account

\* C29: device binding is first-writer-wins under concurrency.  When two
\* verifications with different devices run at once on the same unbound
\* active license, the device the first of them stores is not overwritten
\* by the second, and at most one of the two is answered OK.
C29_FirstWriterWins == [] ~BothValid /\ [][NoOverwrite]_vars

(***************************************************************************)
(* Properties of the payment handlers on one email (BillingSpec).          *)
(***************************************************************************)
\* no email has two active licenses in the table
OneActivePerEmail(table) ==
    \A i \in 1..Len(table), j \in 1..Len(table) :
       (table[i].email = table[j].email
        /\ table[i].status = "active" /\ table[j].status = "active") => i = j

\* C30: the checkout and payment-webhook handlers keep at most one active
\* license per email.  From a table in which no email has two active
\* licenses, no checkout request and no billing event, handled by either
\* webhook handler, leads to a table in which an email has two.
C30_OneActivePerEmail ==
    [][OneActivePerEmail(licenses) => OneActivePerEmail(licenses')]_vars

\* C36: without the PRZ bound of its side, a signal with a price above zero
\* and a ratio above zero gets rounded levels on both sides of its price:
\* stopLoss < price < takeProfit for BUY, takeProfit < price < stopLoss for
\* SELL.
C36_LevelsAroundPrice ==
    (levels # << >> /\ sig.price > 0 /\ RatioOf(sig)[1] > 0) =>
        /\ (sig.side = "BUY" /\ sig.prz_low = << >>)
              => (levels[1] < sig.price /\ sig.price < levels[2])
        /\ (sig.side = "SELL" /\ sig.prz_high = << >>)
              => (levels[2] < sig.price /\ sig.price < levels[1])

(***************************************************************************)
(* Properties of the two verification routes (StoreSpec).                  *)
(***************************************************************************)
\* what the checks that both routes make give for a key: not_found,
\* inactive, expired, or pass
SharedVerdict(key) ==
    IF ~InTable(key) THEN "not_found"
    ELSE IF RowOf(key).status # "active" THEN "inactive"
    ELSE IF RowOf(key).expires_at > 0 /\ now > RowOf(key).expires_at THEN "expired"
    ELSE "pass"

\* the table with the license of the key in status expired
WithExpired(key) ==
    [i \in 1..Len(licenses) |->
        IF licenses[i].license_key = key
        THEN [licenses[i] EXCEPT !.status = "expired"] ELSE licenses[i]]

\* the table a route leaves after the shared checks
AfterShared(key) ==
    IF SharedVerdict(key) = "expired" THEN WithExpired(key) ELSE licenses

\* C35: GET check_license and POST verify agree on the checks they share, in
\* every state of the table and at every time.  For a key that is named,
\* both refuse an unknown key, a status that is not active and an expired
\* license, and both write status expired in the last case and nothing in
\* the others; check_license answers valid with reason ok exactly when the
\* license exists, is active and is not expired, which is when verify goes
\* on to the device; and check_license leaves every mt5_account as it was.
C35_RoutesAgree ==
    [][/\ (CheckStep /\ lic_req'.key # << >>) =>
             /\ lic_resp'.reason =
                   (IF SharedVerdict(lic_req'.key) = "pass" THEN "ok"
                    ELSE SharedVerdict(lic_req'.key))
             /\ (lic_resp'.status = "VALID") <=> (SharedVerdict(lic_req'.key) = "pass")
             /\ licenses' = AfterShared(lic_req'.key)
       /\ (VerifyStep /\ NamesKey(lic_req')) =>
             /\ SharedVerdict(lic_req'.key) # "pass" =>
                   /\ lic_resp'.status = "DENIED"
                   /\ Answered(lic_resp') = SharedVerdict(lic_req'.key)
                   /\ licenses' = AfterShared(lic_req'.key)
             /\ SharedVerdict(lic_req'.key) = "pass" =>
                   /\ Answered(lic_resp') \in {"valid", "wrong_account"}
                   /\ \A i \in 1..Len(licenses) :
                         licenses'[i].status = licenses[i].status]_vars

\* check_license found a license past its expiry and left it expired
C35_Witness ==
    /\ lic_req.op = "check_license"
    /\ lic_resp.reason = "expired"
    /\ InTable(lic_req.key)
    /\ RowOf(lic_req.key).status = "expired"

\* the keys of the table
KeysOf(table) == {table[i].license_key : i \in 1..Len(table)}

\* the email has licenses and none of them is active
Lapsed(email) == LicensesOf(email) # {} /\ ActiveRowsOf(email) = {}

\* the step appends one active license of the email under a key the table did
\* not hold, and leaves the rows the table held as they were
Replaced(email) ==
    /\ Len(licenses') = Len(licenses) + 1
    /\ SubSeq(licenses', 1, Len(licenses)) = licenses
    /\ licenses'[Len(licenses')].email = email
    /\ licenses'[Len(licenses')].status = "active"
    /\ licenses'[Len(licenses')].license_key \notin KeysOf(licenses)

\* C34: status is never reverted.  No step of any route (verify,
\* check_license, set_expiry, create_license, deactivate, the checkout and
\* webhook routes of both servers) changes a status that is inactive or
\* expired to active; and a call of create_or_extend_license_for_email that
\* returns, for an email whose licenses are all inactive or expired, leaves
\* those licenses as they were and adds one active license under a new key.
C34_NeverReactivated ==
    [][/\ \A i \in 1..Len(licenses) :
             licenses[i].status # "active"
                => Kept(i) /\ licenses'[i].status # "active"
       /\ (BillingStep /\ Called(bill_req', bill_resp') /\ Lapsed(bill_req'.email))
             => Replaced(bill_req'.email)]_vars

\* a payment event came for an email whose only license had been deactivated:
\* the old license is still inactive and a second license is active
C34_Witness ==
    /\ served = 3
    /\ Called(bill_req, bill_resp)
    /\ Len(licenses) = 2
    /\ licenses[1].email = bill_req.email
    /\ licenses[2].email = bill_req.email
    /\ licenses[1].status # "active"
    /\ licenses[2].status = "active"
    /\ licenses[2].license_key # licenses[1].license_key

(***************************************************************************)
(* Properties of a verification racing with a renewal (RenewalRaceSpec).   *)
(***************************************************************************)
\* thread t commits set_license_status(license_key, "expired")
WritesExpired(t) == threads[t].pc = "expire" /\ threads'[t].pc = "done"

\* C31: races of a verification with set_expiry or createOrExtend on the same
\* key are benign.  When a verification writes status = expired, the
\* expires_at the license holds at that moment is non-zero and earlier than
\* now, and the write does not leave the license with status expired and an
\* expires_at in the future.
C31_BenignRaces ==
    [][\A t \in Threads : WritesExpired(t) =>
          \A i \in 1..Len(licenses) :
             licenses[i].license_key = threads[t].key =>
                /\ licenses[i].expires_at # 0
                /\ licenses[i].expires_at < now
                /\ ~(licenses'[i].status = "expired" /\ licenses'[i].expires_at > now')]_vars

(***************************************************************************)
(* Properties of the poll and result cycle (BridgeSpec).                   *)
(***************************************************************************)
\* C32: every order that order_result clears from the slot was returned by
\* at least one next_order before it was cleared, under any interleaving of
\* push_order, next_order and order_result.
C32_ClearedWasSeen ==
    [][(req'.op = "order_result" /\ pending_order # << >> /\ pending_order' = << >>)
          => seen]_vars

(***************************************************************************)
(* Properties of the slot as an object (MailboxSpec).                      *)
(***************************************************************************)
\* the value of the slot on a heap: << >> (None) or <<the dict it refers to>>
SlotOn(heap) == IF mailbox.slot = 0 THEN << >> ELSE <<heap[mailbox.slot]>>

\* the heap after an item of the dict at ref is given another value
Changed(heap, ref) == [heap EXCEPT ![ref].direction = "CHANGED"]

\* the references the requests in flight hold: the dict queue_order passed to
\* _set_order, the dict _peek_order returned
Held == {mailbox.workers[t].order : t \in Workers} \ {0}

\* C33: the mailbox operations are atomic and hand out copies.  Under any
\* interleaving of push_order, next_order and order_result served at once,
\* the slot holds nothing or the order one push built, every order that
\* next_order returns is, field for field, the order one push built, and
\* changing the dict that was passed to _set_order or the dict that
\* _peek_order returned leaves the value of the slot as it is.
C33_AtomicCopies ==
    /\ mailbox.slot # 0 => mailbox.heap[mailbox.slot] \in mailbox.built
    /\ \A t \in Workers :
          (mailbox.workers[t].op = "next_order" /\ mailbox.workers[t].pc = "done"
           /\ mailbox.workers[t].reply[1].json # << >>)
             => \E order \in mailbox.built :
                   mailbox.workers[t].reply[1].json = <<Payload(order)>>
    /\ \A ref \in Held : SlotOn(Changed(mailbox.heap, ref)) = SlotOn(mailbox.heap)

\* two different orders were pushed, one request holds the dict it passed to
\* _set_order while the slot refers to an order, and a next_order running at
\* the same time has returned an order
C33_Witness ==
    /\ Cardinality(mailbox.built) >= 2
    /\ mailbox.slot # 0
    /\ \E t \in Workers, u \in Workers :
          /\ mailbox.workers[t].pc = "notify"
          /\ mailbox.workers[u].op = "next_order"
          /\ mailbox.workers[u].pc = "done"
          /\ mailbox.workers[u].reply[1].json # << >>

(***************************************************************************)
(* Properties of the bridge with its terminal (TerminalSpec).              *)
(***************************************************************************)
\* the step serves POST /push_order
PushStep == req'.op = "push_order" /\ polls' = 0 /\ clock' = clock

\* the step serves POST /order_result
ResultStep == req'.op = "order_result" /\ polls' = 0 /\ clock' = clock

\* C37: the poll and result cycle.  With a terminal that keeps polling and
\* posts a well-formed result for each order it receives, if the pushes stop
\* then from some point on the slot is empty; and no step other than an
\* order_result empties a slot that holds an order: without a result the slot
\* keeps an order, the same one unless a push replaces it.
C37_PollAckCycle ==
    /\ (<>[][~PushStep]_vars) => <>[](pending_order = << >>)
    /\ [][(pending_order # << >> /\ ~ResultStep)
             => /\ pending_order' # << >>
                /\ ~PushStep => pending_order' = pending_order]_vars

\* the terminal was given an order and reported on it, the slot was cleared,
\* and the polls that followed found it empty
C37_Witness ==
    /\ pending_order = << >>
    /\ last_cleared # << >>
    /\ ~seen
    /\ polls = MaxPolls
    /\ resp = Empty

====
